---- MODULE Spec2Model ----
(***************************************************************************)
(* A model of src/src/tournament_analysis.py: the record parser, the       *)
(* filter, the aggregator, the ranker and the report, each a pure function *)
(* of its arguments; and of src/src/library_system.py: a Library object    *)
(* with its books, readers and loans, and the calls made on it; and of     *)
(* src/src/solution.py: the weekly temperature analysis.                   *)
(* Strings are TLA+ strings; a character is a string of length 1.  The     *)
(* kwargs of the filter and the team-stats mapping are sequences of        *)
(* entries, in iteration order; the dicts of the library are functions on  *)
(* their keys.                                                             *)
(***************************************************************************)
EXTENDS Integers, Sequences, FiniteSets, TLC

VARIABLES
    fields,            \* the pieces the caller composed the raw line from
    line,              \* match_string, the argument of parse_match_data
    parsed,            \* the outcome of parse_match_data(line)
    matches_list,      \* the list of match records handed to a stage
    criteria,          \* **criteria of the first filter call, in keyword order
    filtered_matches,  \* what filter_matches_by_criteria returned
    criteria2,         \* **criteria of a second filter call on that result
    refiltered,        \* what the second filter call returned
    team_stats,        \* the mapping calculate_advanced_team_stats returned
    tiebreaker_order,  \* the tiebreaker_order given to rank_teams_advanced
    tournament_table,  \* the standings rank_teams_advanced returned
    pc,                \* the caller's position in the pipeline
    rebuilt_stats,     \* the mapping rebuilt in the order of the standings
    reranked,          \* the standings of a second ranking, of rebuilt_stats
    report,            \* what generate_analytics_report returned
    matches_reordered, \* the records of matches_list in another order
    stats_reordered,   \* the mapping the aggregator returned for that order
    books,             \* Library.books: ISBN -> Book
    readers,           \* Library.readers: reader_id -> Reader
    active_loans,      \* Library.active_loans: reader_id -> ISBN -> loan_info
    borrow_history,    \* Library.borrow_history
    now,               \* datetime.now(), in ticks since the library was made
    last_call,         \* the last call made on the library and its outcome
    temperatures,      \* the list handed to analyze_temperature
    analysis           \* the outcome of analyze_temperature(temperatures)

\* what the calls after the ranking produce
laterVars ==
    <<rebuilt_stats, reranked, report, matches_reordered, stats_reordered>>

\* the caller's variables of the tournament module
tournamentVars ==
    <<fields, line, parsed, matches_list, criteria, filtered_matches,
      criteria2, refiltered, team_stats, tiebreaker_order, tournament_table,
      pc, laterVars>>

\* the Library object
libraryState == <<books, readers, active_loans, borrow_history>>

libraryVars == <<libraryState, now, last_call>>

\* the caller's variables of the temperature exercise
weatherVars == <<temperatures, analysis>>

vars == <<tournamentVars, libraryVars, weatherVars>>

\* ------------------------------------------------------------------------
\* Python's str and int primitives, as parse_match_data uses them

Char(s, i) == SubSeq(s, i, i)

Digits == {"0", "1", "2", "3", "4", "5", "6", "7", "8", "9"}

DigitVal(c) ==
    CASE c = "0" -> 0 [] c = "1" -> 1 [] c = "2" -> 2 [] c = "3" -> 3
      [] c = "4" -> 4 [] c = "5" -> 5 [] c = "6" -> 6 [] c = "7" -> 7
      [] c = "8" -> 8 [] c = "9" -> 9

\* str.isspace for one character (the lines of the model hold no other
\* white space than the blank)
IsSpace(c) == c = " "

RECURSIVE LStrip(_)
LStrip(s) ==
    IF Len(s) > 0 /\ IsSpace(Char(s, 1)) THEN LStrip(Tail(s)) ELSE s

RECURSIVE RStrip(_)
RStrip(s) ==
    IF Len(s) > 0 /\ IsSpace(Char(s, Len(s)))
    THEN RStrip(SubSeq(s, 1, Len(s) - 1))
    ELSE s

\* str.strip()
Strip(s) == RStrip(LStrip(s))

\* str.find(sep, from): the first index >= from where sep occurs, 0 if none
RECURSIVE Find(_, _, _)
Find(s, sep, from) ==
    IF from + Len(sep) - 1 > Len(s) THEN 0
    ELSE IF SubSeq(s, from, from + Len(sep) - 1) = sep THEN from
    ELSE Find(s, sep, from + 1)

\* str.split(sep): the pieces between the occurrences of sep, left to right
RECURSIVE Split(_, _)
Split(s, sep) ==
    LET i == Find(s, sep, 1)
    IN  IF i = 0 THEN <<s>>
        ELSE <<SubSeq(s, 1, i - 1)>>
                 \o Split(SubSeq(s, i + Len(sep), Len(s)), sep)

\* the digits of an int literal: digits, single underscores between them
RECURSIVE IsNumeral(_, _)
IsNumeral(s, prevDigit) ==
    IF Len(s) = 0 THEN prevDigit
    ELSE IF Char(s, 1) \in Digits THEN IsNumeral(Tail(s), TRUE)
    ELSE IF Char(s, 1) = "_" THEN prevDigit /\ IsNumeral(Tail(s), FALSE)
    ELSE FALSE

RECURSIVE NumeralVal(_, _)
NumeralVal(s, acc) ==
    IF Len(s) = 0 THEN acc
    ELSE IF Char(s, 1) = "_" THEN NumeralVal(Tail(s), acc)
    ELSE NumeralVal(Tail(s), 10 * acc + DigitVal(Char(s, 1)))

\* int(s): white space around it stripped, an optional sign, a numeral;
\* anything else raises ValueError (ok = FALSE)
PyInt(s) ==
    LET t == Strip(s)
        signed == Len(t) > 0 /\ Char(t, 1) \in {"+", "-"}
        body == IF signed THEN Tail(t) ELSE t
    IN  IF IsNumeral(body, FALSE)
        THEN [ok |-> TRUE,
              val |-> IF signed /\ Char(t, 1) = "-"
                      THEN 0 - NumeralVal(body, 0)
                      ELSE NumeralVal(body, 0)]
        ELSE [ok |-> FALSE, val |-> 0]

\* datetime.date(year, month, day) raises ValueError unless this holds
IsLeap(y) == y % 4 = 0 /\ (y % 100 # 0 \/ y % 400 = 0)

DaysInMonth(y, m) ==
    IF m = 2 THEN (IF IsLeap(y) THEN 29 ELSE 28)
    ELSE IF m \in {4, 6, 9, 11} THEN 30
    ELSE 31

DateExists(y, m, d) ==
    /\ 1 <= y /\ y <= 9999
    /\ 1 <= m /\ m <= 12
    /\ 1 <= d /\ d <= DaysInMonth(y, m)

\* ------------------------------------------------------------------------
\* parse_match_data

Raise(message) == [outcome |-> "raise", exc |-> "ValueError", msg |-> message]

Return(value) == [outcome |-> "return", value |-> value]

NotCalled == [outcome |-> "none"]

\* lines 17-21: the date check
DateAccepted(date_str) ==
    LET p == Split(date_str, "-")
    IN  /\ Len(p) = 3
        /\ \A i \in 1..3 : PyInt(p[i]).ok
        /\ DateExists(PyInt(p[1]).val, PyInt(p[2]).val, PyInt(p[3]).val)

\* the first position >= i that holds no white space (Len(s) + 1 if none)
RECURSIVE SkipSpace(_, _)
SkipSpace(s, i) ==
    IF i <= Len(s) /\ IsSpace(Char(s, i)) THEN SkipSpace(s, i + 1) ELSE i

\* with "(" at p: the places of the ":" and the ")" that the groups
\* ([^:]+) and ([^)]+) of the pattern end at, 0 where the group cannot match
ColonAt(s, p) ==
    LET j == Find(s, ":", p + 1) IN IF j > p + 1 THEN j ELSE 0

CloseAt(s, p) ==
    LET j == ColonAt(s, p)
        k == IF j = 0 THEN 0 ELSE Find(s, ")", j + 1)
    IN  IF j > 0 /\ k > j + 1 THEN k ELSE 0

\* the lazy first group tries every start i of \s*\( from the left
RECURSIVE MatchFrom(_, _)
MatchFrom(s, i) ==
    IF i > Len(s) THEN 0
    ELSE LET p == SkipSpace(s, i)
         IN  IF p <= Len(s) /\ Char(s, p) = "(" /\ CloseAt(s, p) > 0
             THEN i
             ELSE MatchFrom(s, i + 1)

\* lines 25-30: re.match(pattern, teams_score_str.strip()) and its groups
TeamsScoreMatch(teams_score_str) ==
    LET s == Strip(teams_score_str)
        i == MatchFrom(s, 1)
    IN  IF i = 0 THEN [matched |-> FALSE]
        ELSE LET p == SkipSpace(s, i)
                 j == ColonAt(s, p)
                 k == CloseAt(s, p)
             IN  [matched |-> TRUE,
                  team1 |-> SubSeq(s, 1, i - 1),
                  score1_str |-> SubSeq(s, p + 1, j - 1),
                  score2_str |-> SubSeq(s, j + 1, k - 1),
                  team2 |-> Strip(SubSeq(s, k + 1, Len(s)))]

\* lines 44: the score check
ScoresRejected(score1, score2) == score1 < 0 \/ score2 < 0

\* lines 52: the attendance check
AttendanceRejected(attendance) == attendance <= 0

\* the names check without the stadium
NamesRejectedButStadium(team1, team2, stadium_str) ==
    team1 = "" \/ team2 = ""

\* lines 37: the names check
NamesRejected(team1, team2, stadium_str) ==
    team1 = "" \/ team2 = "" \/ stadium_str = ""

parse_match_data(match_string) ==
    LET parts == Split(match_string, " | ")
    IN  IF Len(parts) # 4
        THEN Raise("Invalid format: expected 4 parts separated by ' | '")
        ELSE
        LET date_str == parts[1]
            m == TeamsScoreMatch(parts[2])
        IN  IF ~DateAccepted(date_str)
            THEN Raise("Invalid date format: expected YYYY-MM-DD")
            ELSE IF ~m.matched
            THEN Raise("Invalid teams/score format: expected 'Team1 (X:Y) Team2'")
            ELSE
            LET team1 == Strip(m.team1)
                team2 == Strip(m.team2)
                stadium_str == Strip(parts[3])
                score1 == PyInt(m.score1_str)
                score2 == PyInt(m.score2_str)
                attendance == PyInt(parts[4])
            IN  IF NamesRejected(team1, team2, stadium_str)
                THEN Raise("Team names and stadium cannot be empty")
                ELSE IF \/ ~score1.ok \/ ~score2.ok
                        \/ ScoresRejected(score1.val, score2.val)
                THEN Raise("Invalid score: must be non-negative integers")
                ELSE IF ~attendance.ok \/ AttendanceRejected(attendance.val)
                THEN Raise("Invalid attendance: must be a positive integer")
                ELSE Return([date |-> date_str,
                             team1 |-> team1,
                             score1 |-> score1.val,
                             team2 |-> team2,
                             score2 |-> score2.val,
                             stadium |-> stadium_str,
                             attendance |-> attendance.val])

\* ------------------------------------------------------------------------
\* filter_matches_by_criteria

\* ord(c) for the characters a date string the parser accepts can hold
Ord(c) ==
    CASE c = " " -> 32 [] c = "+" -> 43 [] c = "-" -> 45 [] c = "_" -> 95
      [] OTHER -> 48 + DigitVal(c)

\* a < b on Python strings: by code point, a proper prefix first
RECURSIVE StrLess(_, _)
StrLess(a, b) ==
    IF Len(b) = 0 THEN FALSE
    ELSE IF Len(a) = 0 THEN TRUE
    ELSE IF Char(a, 1) = Char(b, 1) THEN StrLess(Tail(a), Tail(b))
    ELSE Ord(Char(a, 1)) < Ord(Char(b, 1))

StrLeq(a, b) == a = b \/ StrLess(a, b)

\* lines 78-99: the test one criterion puts on a match; a key that is not
\* recognized falls through every elif and keeps the list as it is
\* Keeps with date_to exclusive ("<" written for "<=")
KeepsDateToExclusive(m, c) ==
    CASE c.key = "team" -> m.team1 = c.text \/ m.team2 = c.text
      [] c.key = "date_from" -> StrLeq(c.text, m.date)
      [] c.key = "date_to" -> StrLess(m.date, c.text)
      [] c.key = "min_attendance" -> m.attendance >= c.number
      [] c.key = "max_attendance" -> m.attendance <= c.number
      [] c.key = "min_total_goals" -> (m.score1 + m.score2) >= c.number
      [] c.key = "stadium" -> m.stadium = c.text
      [] OTHER -> TRUE

\* (a criterion's value is a text or a number: c.text or c.number)
Keeps(m, c) ==
    CASE c.key = "team" -> m.team1 = c.text \/ m.team2 = c.text
      [] c.key = "date_from" -> StrLeq(c.text, m.date)
      [] c.key = "date_to" -> StrLeq(m.date, c.text)
      [] c.key = "min_attendance" -> m.attendance >= c.number
      [] c.key = "max_attendance" -> m.attendance <= c.number
      [] c.key = "min_total_goals" -> (m.score1 + m.score2) >= c.number
      [] c.key = "stadium" -> m.stadium = c.text
      [] OTHER -> TRUE

\* the loop left after its first pass (a return inside the for)
ApplyFirstOnly(ms, cs) ==
    IF cs = <<>> THEN ms
    ELSE SelectSeq(ms, LAMBDA m : Keeps(m, Head(cs)))

\* lines 77-99: the loop over criteria.items(), one narrowing per key
RECURSIVE ApplyCriteria(_, _)
ApplyCriteria(ms, cs) ==
    IF cs = <<>> THEN ms
    ELSE ApplyCriteria(
             SelectSeq(ms, LAMBDA m : Keeps(m, Head(cs))),
             Tail(cs))

filter_matches_by_criteria(ms, cs) ==
    IF ms = <<>> THEN <<>> ELSE ApplyCriteria(ms, cs)

\* ------------------------------------------------------------------------
\* calculate_advanced_team_stats

Front(s) == SubSeq(s, 1, Len(s) - 1)

Last(s) == s[Len(s)]

\* list.sort / sorted with key the date: a stable sort, so an element goes
\* behind every element whose date is not greater than its own
RECURSIVE InsertByDate(_, _)
InsertByDate(s, x) ==
    IF s # <<>> /\ StrLess(x.date, Last(s).date)
    THEN Append(InsertByDate(Front(s), x), Last(s))
    ELSE Append(s, x)

\* the list left in the order it came in
KeepInputOrder(s) == s

\* lines 111 and 128
RECURSIVE SortByDate(_)
SortByDate(s) ==
    IF s = <<>> THEN <<>>
    ELSE InsertByDate(SortByDate(Front(s)), Last(s))

\* lines 124-125: the tuple (date, venue, match)
Entry(m, venue) == [date |-> m.date, venue |-> venue, match |-> m]

\* team_matches, a dict in insertion order: a sequence of [name, matches]
HasKey(tm, name) == \E i \in 1..Len(tm) : tm[i].name = name

\* lines 119-122
EnsureKey(tm, name) ==
    IF HasKey(tm, name) THEN tm
    ELSE Append(tm, [name |-> name, matches |-> <<>>])

\* team_matches[name].append(e)
AppendTo(tm, name, e) ==
    [i \in 1..Len(tm) |->
        IF tm[i].name = name
        THEN [tm[i] EXCEPT !.matches = Append(@, e)]
        ELSE tm[i]]

\* lines 116-125
RECURSIVE GroupByTeam(_, _)
GroupByTeam(sorted_matches, tm) ==
    IF sorted_matches = <<>> THEN tm
    ELSE LET m == Head(sorted_matches)
             keyed == EnsureKey(EnsureKey(tm, m.team1), m.team2)
         IN  GroupByTeam(
                 Tail(sorted_matches),
                 AppendTo(AppendTo(keyed, m.team1, Entry(m, "home")),
                          m.team2, Entry(m, "away")))

\* the team's score read from the home side whatever the venue
TeamScoreOfHome(e) == e.match.score1

\* lines 144-149 and 177-182
TeamScore(e) ==
    IF e.venue = "home" THEN e.match.score1 ELSE e.match.score2

OpponentScore(e) ==
    IF e.venue = "home" THEN e.match.score2 ELSE e.match.score1

\* a draw worth nothing
MatchPointsNoDraw(team_score, opponent_score) ==
    IF team_score > opponent_score THEN 3 ELSE 0

\* lines 155-171: match_points
MatchPoints(team_score, opponent_score) ==
    IF team_score > opponent_score THEN 3
    ELSE IF team_score = opponent_score THEN 1
    ELSE 0

\* lines 130-139
ZeroCounters ==
    [points |-> 0, wins |-> 0, draws |-> 0, losses |-> 0, goals_for |-> 0,
     goals_against |-> 0, home_points |-> 0, away_points |-> 0,
     total_attendance |-> 0]

\* lines 141-173: the body of the loop over the team's matches
Accumulate(acc, e) ==
    LET team_score == TeamScore(e)
        opponent_score == OpponentScore(e)
        is_home == e.venue = "home"
        match_points == MatchPoints(team_score, opponent_score)
    IN  [points |-> acc.points + match_points,
         wins |-> acc.wins + (IF team_score > opponent_score THEN 1 ELSE 0),
         draws |-> acc.draws + (IF team_score = opponent_score THEN 1 ELSE 0),
         losses |-> acc.losses + (IF team_score < opponent_score THEN 1 ELSE 0),
         goals_for |-> acc.goals_for + team_score,
         goals_against |-> acc.goals_against + opponent_score,
         home_points |->
             acc.home_points + (IF is_home THEN match_points ELSE 0),
         away_points |->
             acc.away_points + (IF is_home THEN 0 ELSE match_points),
         total_attendance |-> acc.total_attendance + e.match.attendance]

RECURSIVE FoldMatches(_, _)
FoldMatches(matches, acc) ==
    IF matches = <<>> THEN acc
    ELSE FoldMatches(Tail(matches), Accumulate(acc, Head(matches)))

\* the streak counted from the oldest match on
RECURSIVE WinStreakFromOldest(_)
WinStreakFromOldest(matches) ==
    IF matches # <<>> /\ TeamScore(Head(matches)) > OpponentScore(Head(matches))
    THEN 1 + WinStreakFromOldest(Tail(matches))
    ELSE 0

\* lines 175-187: the wins counted from the most recent match back
RECURSIVE WinStreak(_)
WinStreak(matches) ==
    IF matches # <<>> /\ TeamScore(Last(matches)) > OpponentScore(Last(matches))
    THEN 1 + WinStreak(Front(matches))
    ELSE 0

\* line 189: round(total / n, 2), in hundredths; the quotient of a tie is
\* rounded to even (a tie needs n a multiple of 8, and total / n is then a
\* float without error as long as n < 24)
RoundHundredths(total, n) ==
    LET q == (100 * total) \div n
        r == (100 * total) % n
    IN  IF 2 * r > n \/ (2 * r = n /\ q % 2 = 1) THEN q + 1 ELSE q

\* lines 127-204: the statistics of one team from its list of matches
StatsOf(team_matches) ==
    LET matches == SortByDate(team_matches)
        acc == FoldMatches(matches, ZeroCounters)
        matches_played == Len(matches)
    IN  [points |-> acc.points,
         matches_played |-> matches_played,
         wins |-> acc.wins,
         draws |-> acc.draws,
         losses |-> acc.losses,
         goals_for |-> acc.goals_for,
         goals_against |-> acc.goals_against,
         goal_diff |-> acc.goals_for - acc.goals_against,
         home_points |-> acc.home_points,
         away_points |-> acc.away_points,
         win_streak |-> WinStreak(matches),
         avg_attendance |->
             IF matches_played > 0
             THEN RoundHundredths(acc.total_attendance, matches_played)
             ELSE 0]

\* the mapping it returns, in insertion order: a sequence of [name, stats]
calculate_advanced_team_stats(ms) ==
    IF ms = <<>> THEN <<>>
    ELSE LET tm == GroupByTeam(SortByDate(ms), <<>>)
         IN  [i \in 1..Len(tm) |->
                 [name |-> tm[i].name, stats |-> StatsOf(tm[i].matches)]]

\* ------------------------------------------------------------------------
\* rank_teams_advanced

\* lines 214-215: the argument is <<>> for None, <<order>> for a list
DefaultOrder == <<"points", "goal_diff", "goals_for">>

ActiveOrder(order_arg) ==
    IF order_arg = <<>> THEN DefaultOrder ELSE order_arg[1]

\* lines 220-228
TeamsList(ts) ==
    [i \in 1..Len(ts) |->
        [name |-> ts[i].name,
         points |-> ts[i].stats.points,
         goal_diff |-> ts[i].stats.goal_diff,
         goals_for |-> ts[i].stats.goals_for,
         wins |-> ts[i].stats.wins]]

Recognized == {"points", "goal_diff", "goals_for", "wins"}

\* team_data[criterion] for a recognized criterion
Value(team_data, criterion) ==
    CASE criterion = "points" -> team_data.points
      [] criterion = "goal_diff" -> team_data.goal_diff
      [] criterion = "goals_for" -> team_data.goals_for
      [] criterion = "wins" -> team_data.wins

\* the key without the minus signs: the worst team first
RECURSIVE SortKeyAscending(_, _)
SortKeyAscending(team_data, order) ==
    IF order = <<>> THEN <<>>
    ELSE IF Head(order) \in Recognized
    THEN <<Value(team_data, Head(order))>>
             \o SortKeyAscending(team_data, Tail(order))
    ELSE SortKeyAscending(team_data, Tail(order))

\* lines 230-241: get_sort_key
RECURSIVE SortKey(_, _)
SortKey(team_data, order) ==
    IF order = <<>> THEN <<>>
    ELSE IF Head(order) \in Recognized
    THEN <<0 - Value(team_data, Head(order))>>
             \o SortKey(team_data, Tail(order))
    ELSE SortKey(team_data, Tail(order))

\* a < b on tuples of integers of one length
RECURSIVE TupleLess(_, _)
TupleLess(a, b) ==
    IF a = <<>> \/ b = <<>> THEN FALSE
    ELSE IF Head(a) = Head(b) THEN TupleLess(Tail(a), Tail(b))
    ELSE Head(a) < Head(b)

\* an insertion that puts an element before the elements equal to it
RECURSIVE InsertByKeyBeforeEquals(_, _, _)
InsertByKeyBeforeEquals(s, x, order) ==
    IF s # <<>> /\ ~TupleLess(SortKey(Last(s), order), SortKey(x, order))
    THEN Append(InsertByKeyBeforeEquals(Front(s), x, order), Last(s))
    ELSE Append(s, x)

\* line 243: teams_list.sort(key=get_sort_key), a stable sort
RECURSIVE InsertByKey(_, _, _)
InsertByKey(s, x, order) ==
    IF s # <<>> /\ TupleLess(SortKey(x, order), SortKey(Last(s), order))
    THEN Append(InsertByKey(Front(s), x, order), Last(s))
    ELSE Append(s, x)

RECURSIVE SortTeams(_, _)
SortTeams(s, order) ==
    IF s = <<>> THEN <<>>
    ELSE InsertByKey(SortTeams(Front(s), order), Last(s), order)

\* lines 253-266: is_tie
IsTie(team, prev_team, order) ==
    \A k \in 1..Len(order) :
        order[k] \in Recognized
            => Value(team, order[k]) = Value(prev_team, order[k])

\* the rank after a tie group one more than the group's (dense ranking)
NextRankDense(i, current_rank) == current_rank + 1

\* line 271: current_rank = i + 1, for the 0-based i of enumerate
NextRank(i, current_rank) == i + 1

\* lines 245-272: the ranks of the sorted teams, row by row
RECURSIVE Ranks(_, _, _)
Ranks(teams_list, n, order) ==
    IF n = 0 THEN <<>>
    ELSE IF n = 1 THEN <<1>>
    ELSE LET before == Ranks(teams_list, n - 1, order)
         IN  Append(before,
                    IF IsTie(teams_list[n], teams_list[n - 1], order)
                    THEN Last(before)
                    ELSE NextRank(n - 1, Last(before)))

\* a row (rank, name, points, goal_diff) of the result
Row(rank, team) ==
    [rank |-> rank, name |-> team.name, points |-> team.points,
     goal_diff |-> team.goal_diff]

rank_teams_advanced(ts, order_arg) ==
    IF ts = <<>> THEN <<>>
    ELSE LET order == ActiveOrder(order_arg)
             teams_list == SortTeams(TeamsList(ts), order)
             ranks == Ranks(teams_list, Len(teams_list), order)
         IN  [i \in 1..Len(teams_list) |-> Row(ranks[i], teams_list[i])]

\* ------------------------------------------------------------------------
\* generate_analytics_report.  None and the empty dict of the placeholder are
\* the empty sequence <<>>, a value that is present is a sequence of one
\* element; a dict is the sequence of its entries in insertion order.

\* the guard that drops the standings from the test for empty inputs
ReportDegenerateButTable(ms, ts, table) == ms = <<>> \/ ts = <<>>

\* line 283
ReportDegenerate(ms, ts, table) == ms = <<>> \/ ts = <<>> \/ table = <<>>

\* lines 284-292
PlaceholderReport ==
    [tournament_leader |-> "",
     most_goals_match |-> <<>>,
     highest_attendance_match |-> <<>>,
     most_efficient_team |-> "",
     biggest_upset |-> <<>>,
     goal_distribution |-> <<>>,
     attendance_by_team |-> <<>>]

\* lines 294-296: rank_dict, a later row of a team replacing an earlier one
InRankDict(table, team) == \E i \in 1..Len(table) : table[i].name = team

RankDict(table, team) ==
    LET rows == {i \in 1..Len(table) : table[i].name = team}
    IN  table[CHOOSE i \in rows : \A j \in rows : j <= i].rank

\* line 298
TournamentLeader(table) == IF table # <<>> THEN table[1].name ELSE ""

\* a scan in which an element equal to the best so far replaces it
RECURSIVE LastMaxIndex(_, _, _)
LastMaxIndex(keys, i, best) ==
    IF i > Len(keys) THEN best
    ELSE LastMaxIndex(keys, i + 1, IF keys[i] >= keys[best] THEN i ELSE best)

\* the builtin max(seq, key=...): the scan keeps the element it holds unless
\* a later one has a strictly greater key
RECURSIVE MaxIndex(_, _, _)
MaxIndex(keys, i, best) ==
    IF i > Len(keys) THEN best
    ELSE MaxIndex(keys, i + 1, IF keys[i] > keys[best] THEN i ELSE best)

TotalGoals(m) == m.score1 + m.score2

\* line 300
MostGoalsMatch(ms) ==
    ms[MaxIndex([i \in 1..Len(ms) |-> TotalGoals(ms[i])], 2, 1)]

\* line 301
HighestAttendanceMatch(ms) ==
    ms[MaxIndex([i \in 1..Len(ms) |-> ms[i].attendance], 2, 1)]

\* line 308: round(points / matches_played, 2), in hundredths
Efficiency(stats) == RoundHundredths(stats.points, stats.matches_played)

\* lines 303-314: holder is (most_efficient_team, max_efficiency), the
\* latter in hundredths
RECURSIVE EfficiencyScan(_, _)
EfficiencyScan(ts, holder) ==
    IF ts = <<>> THEN holder
    ELSE LET team == Head(ts).name
             stats == Head(ts).stats
         IN  IF stats.matches_played > 0
             THEN LET efficiency == Efficiency(stats)
                  IN  IF efficiency > holder.max_efficiency
                      THEN EfficiencyScan(
                               Tail(ts),
                               [most_efficient_team |-> team,
                                max_efficiency |-> efficiency])
                      ELSE IF efficiency = holder.max_efficiency
                              /\ holder.most_efficient_team = ""
                      THEN EfficiencyScan(
                               Tail(ts),
                               [holder EXCEPT !.most_efficient_team = team])
                      ELSE EfficiencyScan(Tail(ts), holder)
             ELSE EfficiencyScan(Tail(ts), holder)

MostEfficientTeam(ts) ==
    EfficiencyScan(ts, [most_efficient_team |-> "", max_efficiency |-> -100])
        .most_efficient_team

\* a win by a side of the same rank counted as an upset too
IsUpsetOrLevel(winner_rank, loser_rank) == winner_rank >= loser_rank

\* line 339
IsUpset(winner_rank, loser_rank) == winner_rank > loser_rank

\* lines 316-347: holder is (biggest_upset, max_rank_diff)
RECURSIVE UpsetScan(_, _, _)
UpsetScan(ms, table, holder) ==
    IF ms = <<>> THEN holder
    ELSE LET match == Head(ms)
             team1 == match.team1
             team2 == match.team2
             score1 == match.score1
             score2 == match.score2
         IN  IF score1 = score2
             THEN UpsetScan(Tail(ms), table, holder)
             ELSE IF ~InRankDict(table, team1) \/ ~InRankDict(table, team2)
             THEN UpsetScan(Tail(ms), table, holder)
             ELSE
             LET winner == IF score1 > score2 THEN team1 ELSE team2
                 loser == IF score1 > score2 THEN team2 ELSE team1
                 winner_rank == RankDict(table, winner)
                 loser_rank == RankDict(table, loser)
                 rank_diff == winner_rank - loser_rank
             IN  IF IsUpset(winner_rank, loser_rank)
                    /\ rank_diff > holder.max_rank_diff
                 THEN UpsetScan(
                          Tail(ms), table,
                          [biggest_upset |->
                               <<[match |-> match,
                                  winner_rank |-> winner_rank,
                                  loser_rank |-> loser_rank]>>,
                           max_rank_diff |-> rank_diff])
                 ELSE UpsetScan(Tail(ms), table, holder)

BiggestUpset(ms, table) ==
    UpsetScan(ms, table, [biggest_upset |-> <<>>, max_rank_diff |-> -1])
        .biggest_upset

\* lines 349-352: the dict total_goals -> count, in insertion order
RECURSIVE GoalDistribution(_, _)
GoalDistribution(ms, dist) ==
    IF ms = <<>> THEN dist
    ELSE LET total_goals == TotalGoals(Head(ms))
         IN  GoalDistribution(
                 Tail(ms),
                 IF \E i \in 1..Len(dist) : dist[i].goals = total_goals
                 THEN [i \in 1..Len(dist) |->
                          IF dist[i].goals = total_goals
                          THEN [dist[i] EXCEPT !.count = @ + 1]
                          ELSE dist[i]]
                 ELSE Append(dist, [goals |-> total_goals, count |-> 1]))

\* lines 354-356
AttendanceByTeam(ts) ==
    [i \in 1..Len(ts) |->
        [name |-> ts[i].name, avg_attendance |-> ts[i].stats.avg_attendance]]

generate_analytics_report(ms, ts, table) ==
    IF ReportDegenerate(ms, ts, table) THEN PlaceholderReport
    ELSE [tournament_leader |-> TournamentLeader(table),
          most_goals_match |-> <<MostGoalsMatch(ms)>>,
          highest_attendance_match |-> <<HighestAttendanceMatch(ms)>>,
          most_efficient_team |-> MostEfficientTeam(ts),
          biggest_upset |-> BiggestUpset(ms, table),
          goal_distribution |-> GoalDistribution(ms, <<>>),
          attendance_by_team |-> AttendanceByTeam(ts)]

\* ------------------------------------------------------------------------
\* library_system.py: Book, Reader and Library.  A call on the library is an
\* action: it changes the object as the method does and leaves in last_call
\* what the caller got, a returned value or a raised exception.

MAX_BOOKS == 5

LOAN_PERIOD_DAYS == 14

FINE_PER_DAY == 10

\* the clock counts half days
TicksPerDay == 2

\* datetime.now().year
CurrentYear == 2024

\* str(n) for n >= 0
RECURSIVE Str(_)
Str(n) ==
    LET digit == CHOOSE c \in Digits : DigitVal(c) = n % 10
    IN  IF n < 10 THEN digit ELSE Str(n \div 10) \o digit

Contains(s, sub) == Find(s, sub, 1) > 0

StartsWith(s, prefix) ==
    Len(s) >= Len(prefix) /\ SubSeq(s, 1, Len(prefix)) = prefix

EndsWith(s, suffix) ==
    Len(s) >= Len(suffix)
        /\ SubSeq(s, Len(s) - Len(suffix) + 1, Len(s)) = suffix

\* a del that leaves the key in the dict
DelNothing(d, key) == d

\* d[key] = value and del d[key] on a dict
Put(d, key, value) ==
    [k \in DOMAIN d \cup {key} |-> IF k = key THEN value ELSE d[k]]

Del(d, key) == [k \in DOMAIN d \ {key} |-> d[k]]

RaiseOf(exc, message) == [outcome |-> "raise", exc |-> exc, msg |-> message]

Called(op, args, result) == [op |-> op, args |-> args, result |-> result]

\* the unknown reader told so in a returned pair
ReaderRefused(reader_id) ==
    Return(<<FALSE, "Reader " \o reader_id \o " not found">>)

\* lines 292, 349 and 436: raise ReaderNotFoundError(...)
ReaderNotFound(reader_id) ==
    RaiseOf("ReaderNotFoundError", "Reader " \o reader_id \o " not found")

\* Book.__init__, lines 35-44: the checks that raise ValueError
BookRejected(isbn, title, author, year, total_copies) ==
    \/ isbn = ""
    \/ title = ""
    \/ author = ""
    \/ year < 1000 \/ year > CurrentYear
    \/ total_copies < 0

\* Book.__init__, lines 46-54
Book(isbn, title, author, year, total_copies, available_copies) ==
    [isbn |-> isbn, title |-> title, author |-> author, year |-> year,
     total_copies |-> total_copies,
     available_copies |->
         IF available_copies > total_copies THEN total_copies
         ELSE available_copies]

\* a book taken for available with no copy left
HasCopiesOrNone(book) == book.available_copies >= 0

\* Book.is_available
is_available(book) == book.available_copies > 0

\* a book that lends a copy without counting it
BookBorrowUncounted(book) ==
    IF is_available(book)
    THEN [ok |-> TRUE, book |-> book]
    ELSE [ok |-> FALSE, book |-> book]

\* Book.borrow: what it returns and the book afterwards
BookBorrow(book) ==
    IF is_available(book)
    THEN [ok |-> TRUE,
          book |-> [book EXCEPT !.available_copies = @ - 1]]
    ELSE [ok |-> FALSE, book |-> book]

\* a book that takes a copy back without counting it
BookReturnUncounted(book) ==
    IF book.available_copies < book.total_copies
    THEN [ok |-> TRUE, book |-> book]
    ELSE [ok |-> FALSE, book |-> book]

\* Book.return_book
BookReturn(book) ==
    IF book.available_copies < book.total_copies
    THEN [ok |-> TRUE,
          book |-> [book EXCEPT !.available_copies = @ + 1]]
    ELSE [ok |-> FALSE, book |-> book]

\* Reader.__init__, lines 105-116: the checks that raise ValueError
ReaderRejected(reader_id, name, email) ==
    \/ reader_id = ""
    \/ name = ""
    \/ email = "" \/ ~Contains(email, "@") \/ ~Contains(email, ".")
    \/ StartsWith(email, "@") \/ EndsWith(email, ".")
    \/ LET email_parts == Split(email, "@")
       IN  \/ Len(email_parts) # 2
           \/ ~Contains(email_parts[2], ".")
           \/ StartsWith(email_parts[2], ".")
           \/ EndsWith(email_parts[2], ".")

\* Reader.__init__, lines 118-122
Reader(reader_id, name, email) ==
    [reader_id |-> reader_id, name |-> name, email |-> email,
     borrowed_books |-> {}, history |-> <<>>]

\* a reader let to take a book while holding MAX_BOOKS
CanBorrowAtLimit(reader) == Cardinality(reader.borrowed_books) <= MAX_BOOKS

\* Reader.can_borrow
can_borrow(reader) == Cardinality(reader.borrowed_books) < MAX_BOOKS

\* a reader who refuses every book
ReaderAddRefused(reader, isbn, t) == [ok |-> FALSE, reader |-> reader]

\* Reader.add_borrowed_book at the time t
ReaderAdd(reader, isbn, t) ==
    IF ~can_borrow(reader) THEN [ok |-> FALSE, reader |-> reader]
    ELSE IF isbn \in reader.borrowed_books
    THEN [ok |-> FALSE, reader |-> reader]
    ELSE [ok |-> TRUE,
          reader |->
              [reader EXCEPT
                  !.borrowed_books = @ \cup {isbn},
                  !.history =
                      Append(@, [time |-> t, text |-> "borrowed " \o isbn])]]

\* a reader who notes the return and keeps the book on the list
ReaderKeeps(reader, isbn, t) ==
    IF isbn \in reader.borrowed_books
    THEN [ok |-> TRUE,
          reader |->
              [reader EXCEPT
                  !.history =
                      Append(@, [time |-> t, text |-> "returned " \o isbn])]]
    ELSE [ok |-> FALSE, reader |-> reader]

\* Reader.remove_borrowed_book at the time t
ReaderRemove(reader, isbn, t) ==
    IF isbn \in reader.borrowed_books
    THEN [ok |-> TRUE,
          reader |->
              [reader EXCEPT
                  !.borrowed_books = @ \ {isbn},
                  !.history =
                      Append(@, [time |-> t, text |-> "returned " \o isbn])]]
    ELSE [ok |-> FALSE, reader |-> reader]

\* copies that are counted in the total and never reach the shelf
MoreCopiesInTotal(book, copies) ==
    [book EXCEPT !.total_copies = @ + copies]

\* lines 210-212: the copies added to a book of the catalogue
MoreCopies(book, copies) ==
    [book EXCEPT !.total_copies = @ + copies,
                 !.available_copies = @ + copies]

\* Library.add_book
add_book(isbn, title, author, year, copies) ==
    /\ IF isbn \in DOMAIN books
       THEN /\ books' = [books EXCEPT ![isbn] = MoreCopies(@, copies)]
            /\ last_call' =
                   Called("add_book", <<isbn, copies, title, author, year>>,
                          Return(TRUE))
       ELSE IF BookRejected(isbn, title, author, year, copies)
       THEN /\ books' = books
            /\ last_call' =
                   Called("add_book", <<isbn, copies, title, author, year>>,
                          Return(FALSE))
       ELSE /\ books' =
                   Put(books, isbn,
                       Book(isbn, title, author, year, copies, copies))
            /\ last_call' =
                   Called("add_book", <<isbn, copies, title, author, year>>,
                          Return(TRUE))
    /\ UNCHANGED <<readers, active_loans, borrow_history, now>>

\* Library.register_reader
register_reader(reader_id, name, email) ==
    /\ IF reader_id \in DOMAIN readers
       THEN /\ UNCHANGED <<readers, active_loans>>
            /\ last_call' =
                   Called("register_reader", <<reader_id, email>>,
                          Return(FALSE))
       ELSE IF ReaderRejected(reader_id, name, email)
       THEN /\ UNCHANGED <<readers, active_loans>>
            /\ last_call' =
                   Called("register_reader", <<reader_id, email>>,
                          Return(FALSE))
       ELSE /\ readers' = Put(readers, reader_id,
                              Reader(reader_id, name, email))
            /\ active_loans' = Put(active_loans, reader_id, <<>>)
            /\ last_call' =
                   Called("register_reader", <<reader_id, email>>,
                          Return(TRUE))
    /\ UNCHANGED <<books, borrow_history, now>>

\* Library.borrow_book
borrow_book(reader_id, isbn) ==
    /\ IF reader_id \notin DOMAIN readers
       THEN /\ UNCHANGED libraryState
            /\ last_call' =
                   Called("borrow_book", <<reader_id, isbn>>,
                          ReaderNotFound(reader_id))
       ELSE IF isbn \notin DOMAIN books
       THEN /\ UNCHANGED libraryState
            /\ last_call' =
                   Called("borrow_book", <<reader_id, isbn>>,
                          Return(<<FALSE, "Book with ISBN " \o isbn
                                              \o " not found">>))
       ELSE IF ~is_available(books[isbn])
       THEN /\ UNCHANGED libraryState
            /\ last_call' =
                   Called("borrow_book", <<reader_id, isbn>>,
                          RaiseOf("BookNotAvailableError",
                                  "Book " \o isbn \o " is not available"))
       ELSE IF ~can_borrow(readers[reader_id])
       THEN /\ UNCHANGED libraryState
            /\ last_call' =
                   Called("borrow_book", <<reader_id, isbn>>,
                          Return(<<FALSE,
                                   "Reader has reached the maximum limit of "
                                       \o Str(MAX_BOOKS) \o " books">>))
       ELSE IF isbn \in readers[reader_id].borrowed_books
       THEN /\ UNCHANGED libraryState
            /\ last_call' =
                   Called("borrow_book", <<reader_id, isbn>>,
                          Return(<<FALSE,
                                   "Reader has already borrowed this book">>))
       ELSE
       LET lent == BookBorrow(books[isbn])
           taken == ReaderAdd(readers[reader_id], isbn, now)
           loan_info ==
               [borrow_date |-> now,
                return_date |-> now + LOAN_PERIOD_DAYS * TicksPerDay,
                returned |-> FALSE]
       IN  /\ books' = [books EXCEPT ![isbn] = lent.book]
           /\ IF lent.ok
              THEN readers' = [readers EXCEPT ![reader_id] = taken.reader]
              ELSE readers' = readers
           /\ IF lent.ok /\ taken.ok
              THEN /\ active_loans' =
                          [active_loans EXCEPT
                              ![reader_id] = Put(@, isbn, loan_info)]
                   /\ borrow_history' =
                          Append(borrow_history,
                                 [reader_id |-> reader_id,
                                  isbn |-> isbn,
                                  borrow_date |-> loan_info.borrow_date,
                                  return_date |-> loan_info.return_date])
                   /\ last_call' =
                          Called("borrow_book", <<reader_id, isbn>>,
                                 Return(<<TRUE,
                                          "Book '" \o books[isbn].title
                                              \o "' successfully borrowed by "
                                              \o readers[reader_id].name>>))
              ELSE /\ UNCHANGED <<active_loans, borrow_history>>
                   /\ last_call' =
                          Called("borrow_book", <<reader_id, isbn>>,
                                 Return(<<FALSE, "Failed to borrow book">>))
    /\ UNCHANGED now

\* a fine that charges every day begun after the due date
FinePerDayBegun(reader_id, isbn, t) ==
    IF reader_id \notin DOMAIN active_loans
           \/ isbn \notin DOMAIN active_loans[reader_id]
    THEN 0
    ELSE LET return_date == active_loans[reader_id][isbn].return_date
         IN  IF t <= return_date THEN 0
             ELSE ((t - return_date + TicksPerDay - 1) \div TicksPerDay)
                      * FINE_PER_DAY

\* Library.calculate_fine at the time t
calculate_fine(reader_id, isbn, t) ==
    IF reader_id \notin DOMAIN active_loans
           \/ isbn \notin DOMAIN active_loans[reader_id]
    THEN 0
    ELSE LET return_date == active_loans[reader_id][isbn].return_date
         IN  IF t <= return_date THEN 0
             ELSE ((t - return_date) \div TicksPerDay) * FINE_PER_DAY

\* Library.return_book
return_book(reader_id, isbn) ==
    /\ IF reader_id \notin DOMAIN readers
       THEN /\ UNCHANGED libraryState
            /\ last_call' =
                   Called("return_book", <<reader_id, isbn>>,
                          ReaderNotFound(reader_id))
       ELSE IF isbn \notin DOMAIN books
       THEN /\ UNCHANGED libraryState
            /\ last_call' =
                   Called("return_book", <<reader_id, isbn>>,
                          Return(<<FALSE, 0>>))
       ELSE IF isbn \notin readers[reader_id].borrowed_books
       THEN /\ UNCHANGED libraryState
            /\ last_call' =
                   Called("return_book", <<reader_id, isbn>>,
                          Return(<<FALSE, 0>>))
       ELSE
       LET fine == calculate_fine(reader_id, isbn, now)
           back == BookReturn(books[isbn])
           given == ReaderRemove(readers[reader_id], isbn, now)
       IN  /\ books' = [books EXCEPT ![isbn] = back.book]
           /\ IF back.ok
              THEN readers' = [readers EXCEPT ![reader_id] = given.reader]
              ELSE readers' = readers
           /\ IF back.ok /\ given.ok
              THEN /\ active_loans' =
                          IF reader_id \in DOMAIN active_loans
                                 /\ isbn \in DOMAIN active_loans[reader_id]
                          THEN [active_loans EXCEPT
                                   ![reader_id] = Del(@, isbn)]
                          ELSE active_loans
                   /\ last_call' =
                          Called("return_book", <<reader_id, isbn>>,
                                 Return(<<TRUE, fine>>))
              ELSE /\ UNCHANGED active_loans
                   /\ last_call' =
                          Called("return_book", <<reader_id, isbn>>,
                                 Return(<<FALSE, 0>>))
           /\ UNCHANGED borrow_history
    /\ UNCHANGED now

\* the records of a history whose text says "borrowed"
RECURSIVE CountBorrowed(_)
CountBorrowed(history) ==
    IF history = <<>> THEN 0
    ELSE (IF Contains(Head(history).text, "borrowed") THEN 1 ELSE 0)
             + CountBorrowed(Tail(history))

\* min of the times of a history that is not empty
EarliestTime(history) ==
    CHOOSE t \in {history[i].time : i \in 1..Len(history)} :
        \A i \in 1..Len(history) : t <= history[i].time

\* Library.get_reader_stats
get_reader_stats(reader_id) ==
    /\ IF reader_id \notin DOMAIN readers
       THEN last_call' =
                Called("get_reader_stats", <<reader_id>>,
                       ReaderNotFound(reader_id))
       ELSE LET reader == readers[reader_id]
            IN  last_call' =
                    Called("get_reader_stats", <<reader_id>>,
                           Return([reader_id |-> reader_id,
                                   name |-> reader.name,
                                   email |-> reader.email,
                                   currently_borrowed |->
                                       Cardinality(reader.borrowed_books),
                                   total_borrowed |->
                                       CountBorrowed(reader.history),
                                   registration_date |->
                                       IF reader.history # <<>>
                                       THEN <<EarliestTime(reader.history)>>
                                       ELSE <<>>]))
    /\ UNCHANGED <<libraryState, now>>

\* lines 463-467: borrow_count, the (ISBN, count) items of a dict in the
\* order the ISBNs were first met
RECURSIVE BorrowCount(_, _)
BorrowCount(history, borrow_count) ==
    IF history = <<>> THEN borrow_count
    ELSE LET isbn == Head(history).isbn
             at == {k \in 1..Len(borrow_count) : borrow_count[k][1] = isbn}
         IN  BorrowCount(
                 Tail(history),
                 IF at = {} THEN Append(borrow_count, <<isbn, 1>>)
                 ELSE [k \in 1..Len(borrow_count) |->
                          IF k \in at
                          THEN <<isbn, borrow_count[k][2] + 1>>
                          ELSE borrow_count[k]])

\* the item put behind the items of a count not smaller than its own
InsertByCount(sorted, item) ==
    LET before ==
            {k \in 1..Len(sorted) : sorted[k][2] >= item[2]}
        n == Cardinality(before)
    IN  SubSeq(sorted, 1, n) \o <<item>> \o SubSeq(sorted, n + 1, Len(sorted))

\* the items left in the order the ISBNs were first borrowed
InFirstBorrowedOrder(items) == items

\* line 470: sorted(items, key=count, reverse=True), a stable sort
RECURSIVE SortByCount(_)
SortByCount(items) ==
    IF items = <<>> THEN <<>>
    ELSE InsertByCount(SortByCount(SubSeq(items, 1, Len(items) - 1)),
                       items[Len(items)])

\* line 472: sorted_books[:limit]
SliceTo(s, limit) ==
    IF limit >= 0
    THEN SubSeq(s, 1, IF limit < Len(s) THEN limit ELSE Len(s))
    ELSE SubSeq(s, 1, IF Len(s) + limit > 0 THEN Len(s) + limit ELSE 0)

\* what get_popular_books(limit) returns for a borrow history
PopularBooks(history, limit) ==
    SliceTo(SortByCount(BorrowCount(history, <<>>)), limit)

\* Library.get_popular_books
get_popular_books(limit) ==
    /\ last_call' =
           Called("get_popular_books", <<limit>>,
                  Return(PopularBooks(borrow_history, limit)))
    /\ UNCHANGED <<libraryState, now>>

\* ------------------------------------------------------------------------
\* solution.py: analyze_temperature.  The texts are Russian sentences in the
\* source and are given here in English.

\* a day counted as hot only above 25 degrees
IsHotAbove(temp) == temp > 25

\* line 19: temp >= 25
IsHot(temp) == temp >= 25

\* line 22: temp < 10
IsCold(temp) == temp < 10

RECURSIVE SumOfList(_)
SumOfList(temps) ==
    IF temps = <<>> THEN 0 ELSE Head(temps) + SumOfList(Tail(temps))

\* max(temperatures) and min(temperatures) of a list that is not empty
MaxOfList(temps) ==
    CHOOSE m \in {temps[k] : k \in 1..Len(temps)} :
        \A k \in 1..Len(temps) : temps[k] <= m

MinOfList(temps) ==
    CHOOSE m \in {temps[k] : k \in 1..Len(temps)} :
        \A k \in 1..Len(temps) : temps[k] >= m

\* line 32
HotWeekText == "Hot week, drinking more water is recommended"

\* line 34
ColdWeekText == "Cold week, dressing warmer is recommended"

\* line 36
ModerateWeekText == "Moderate week, good weather for walks"

\* lines 31-36
Recommendation(hot_days, cold_days) ==
    IF hot_days >= 3 THEN HotWeekText
    ELSE IF cold_days >= 3 THEN ColdWeekText
    ELSE ModerateWeekText

\* analyze_temperature; the average is in hundredths of a degree
analyze_temperature(temps) ==
    IF Len(temps) # 7
    THEN Raise("The list must hold exactly 7 days")
    ELSE LET hot_days ==
                 Cardinality({k \in 1..Len(temps) : IsHot(temps[k])})
             cold_days ==
                 Cardinality({k \in 1..Len(temps) : IsCold(temps[k])})
         IN  Return([hot_days |-> hot_days,
                     cold_days |-> cold_days,
                     average_temperature |->
                         RoundHundredths(SumOfList(temps), Len(temps)),
                     max_temperature |-> MaxOfList(temps),
                     min_temperature |-> MinOfList(temps),
                     recommendation |->
                         Recommendation(hot_days, cold_days)])

\* ------------------------------------------------------------------------
\* The lines the caller hands to the parser: a date, a team/score block, a
\* stadium and an attendance, each drawn from a pool holding well-formed
\* and malformed pieces, joined the way section 6 of the spec writes a line

DatePieces ==
    {"2024-02-29", "2023-02-29", "2024-02-30", "2024-2-5", "2024-10-01",
     "2024-13-01", "2024-02", "2024-02-01-07", "20x4-01-01", "",
     " 2024-03-10", "0000-01-01"}

TeamPieces == {"Alpha", "", "Red Falcons "}

Team2Pieces == {"Beta", " "}

StadiumPieces == {"National Arena", " "}

\* an int literal with the value Python gives it, or text that is none
IntPiece(text, val) == [text |-> text, isint |-> TRUE, val |-> val]

JunkPiece(text) == [text |-> text, isint |-> FALSE, val |-> 0]

ScorePieces ==
    {IntPiece("0", 0), IntPiece("2", 2), IntPiece(" 1", 1),
     IntPiece("-1", 0 - 1), JunkPiece("x"), JunkPiece("")}

Score2Pieces == {IntPiece("3", 3), IntPiece("-2", 0 - 2)}

AttendancePieces ==
    {IntPiece("15320", 15320), IntPiece("+7", 7), IntPiece("1_000", 1000),
     IntPiece("0", 0), IntPiece("-5", 0 - 5), JunkPiece("12k")}

Variants == {"line", "missing", "extra", "noparen", "dash"}

InputFields ==
    [date : DatePieces, team1 : TeamPieces, score1 : ScorePieces,
     score2 : Score2Pieces, team2 : Team2Pieces, stadium : StadiumPieces,
     attendance : AttendancePieces, variant : Variants]

NoFields ==
    [date |-> "", team1 |-> "", score1 |-> JunkPiece(""),
     score2 |-> JunkPiece(""), team2 |-> "", stadium |-> "",
     attendance |-> JunkPiece(""), variant |-> "none"]

ComposeBlock(f) ==
    CASE f.variant = "noparen" ->
            f.team1 \o " " \o f.score1.text \o ":" \o f.score2.text
                \o " " \o f.team2
      [] f.variant = "dash" ->
            f.team1 \o " (" \o f.score1.text \o "-" \o f.score2.text
                \o ") " \o f.team2
      [] OTHER ->
            f.team1 \o " (" \o f.score1.text \o ":" \o f.score2.text
                \o ") " \o f.team2

ComposeLine(f) ==
    LET head == f.date \o " | " \o ComposeBlock(f) \o " | " \o f.stadium
    IN  CASE f.variant = "missing" -> head
          [] f.variant = "extra" ->
                head \o " | " \o f.attendance.text \o " | " \o "sold out"
          [] OTHER -> head \o " | " \o f.attendance.text

\* ------------------------------------------------------------------------
\* The records and criteria the caller hands to the filter

Match(date, team1, score1, team2, score2, stadium, attendance) ==
    [date |-> date, team1 |-> team1, score1 |-> score1, team2 |-> team2,
     score2 |-> score2, stadium |-> stadium, attendance |-> attendance]

\* the last one is a record the parser returns for a date it should reject
FilterRecords ==
    {Match("2024-03-10", "Alpha", 2, "Beta", 1, "National Arena", 15320),
     Match("2024-03-10", "Beta", 0, "Gamma", 0, "City Park", 800),
     Match("2024-10-01", "Gamma", 3, "Alpha", 2, "National Arena", 20000),
     Match("2024-02-29", "Gamma", 1, "Beta", 1, "City Park", 15320),
     Match("2024-2-5", "Beta", 4, "Alpha", 0, "National Arena", 800)}

TextCriterion(key, text) == [key |-> key, text |-> text, number |-> 0]

NumberCriterion(key, number) == [key |-> key, text |-> "", number |-> number]

CriteriaPool ==
    {TextCriterion("team", "Alpha"), TextCriterion("team", "Delta"),
     TextCriterion("date_from", "2024-03-10"),
     TextCriterion("date_to", "2024-03-10"),
     NumberCriterion("min_attendance", 15320),
     NumberCriterion("max_attendance", 15320),
     NumberCriterion("min_total_goals", 3),
     TextCriterion("stadium", "National Arena"),
     TextCriterion("referee", "Smith")}

MaxMatches == 2

MaxCriteria == 3

Keys(cs) == {cs[i].key : i \in 1..Len(cs)}

\* keyword arguments: each key at most once
RECURSIVE CriteriaSeqs(_)
CriteriaSeqs(n) ==
    IF n = 0 THEN {<<>>}
    ELSE LET shorter == CriteriaSeqs(n - 1)
         IN  shorter \cup
             {Append(cs, c) : <<cs, c>> \in
                 {x \in shorter \X CriteriaPool : x[2].key \notin Keys(x[1])}}

\* ------------------------------------------------------------------------
\* The records the caller hands to the aggregator

StatsDates == {"2024-03-10", "2024-10-01"}

StatsPairs ==
    {<<"Alpha", "Beta">>, <<"Beta", "Alpha">>, <<"Alpha", "Alpha">>,
     <<"Beta", "Gamma">>}

StatsScores == {<<2, 1>>, <<0, 1>>, <<1, 1>>}

StatsRecords ==
    {Match(d, t[1], sc[1], t[2], sc[2], "National Arena", 15320) :
        d \in StatsDates, t \in StatsPairs, sc \in StatsScores}

MaxGames == 3

\* ------------------------------------------------------------------------
\* The mappings the caller hands to the ranker: per team the statistics the
\* aggregator computes for a list of home matches

HomeGame(score1, score2) ==
    Entry(Match("2024-03-10", "Home", score1, "Visitors", score2,
                "National Arena", 15320), "home")

SeasonPool ==
    {<<HomeGame(2, 0), HomeGame(1, 0)>>,
     <<HomeGame(3, 1), HomeGame(2, 1)>>,
     <<HomeGame(1, 0)>>,
     <<HomeGame(1, 1), HomeGame(0, 0), HomeGame(2, 2)>>,
     <<HomeGame(1, 1)>>,
     <<HomeGame(0, 2)>>}

TeamNames == <<"Alpha", "Beta", "Gamma", "Delta", "Epsilon">>

MaxTeams == 3

MaxOrder == 2

\* the lists over the recognized criteria, up to n long
RECURSIVE Orders(_)
Orders(n) ==
    IF n = 0 THEN {<<>>}
    ELSE LET shorter == Orders(n - 1)
         IN  shorter \cup
             {Append(o, c) : <<o, c>> \in shorter \X Recognized}

\* tiebreaker_order left out (None) or given
OrderArgs == {<<>>} \cup {<<o>> : o \in Orders(MaxOrder)}

\* ------------------------------------------------------------------------
\* The state machine

Idle ==
    /\ fields = NoFields
    /\ line = ""
    /\ parsed = NotCalled
    /\ matches_list = <<>>
    /\ criteria = <<>>
    /\ filtered_matches = <<>>
    /\ criteria2 = <<>>
    /\ refiltered = <<>>
    /\ team_stats = <<>>
    /\ tiebreaker_order = <<>>
    /\ tournament_table = <<>>
    /\ pc = "start"
    /\ rebuilt_stats = <<>>
    /\ reranked = <<>>
    /\ report = NotCalled
    /\ matches_reordered = <<>>
    /\ stats_reordered = <<>>
    /\ books = <<>>
    /\ readers = <<>>
    /\ active_loans = <<>>
    /\ borrow_history = <<>>
    /\ now = 0
    /\ last_call = [op |-> "", args |-> <<>>, result |-> NotCalled]
    /\ temperatures = <<>>
    /\ analysis = NotCalled

Init == Idle

\* the caller composes a line and calls parse_match_data on it
ParseLine ==
    /\ pc = "start"
    /\ \E f \in InputFields :
        /\ fields' = f
        /\ line' = ComposeLine(f)
        /\ parsed' = parse_match_data(ComposeLine(f))
    /\ pc' = "parsed"
    /\ UNCHANGED laterVars
    /\ UNCHANGED <<libraryVars, weatherVars>>
    /\ UNCHANGED <<matches_list, criteria, filtered_matches, criteria2,
                   refiltered, team_stats, tiebreaker_order,
                   tournament_table>>

NextParser == ParseLine

SpecParser == Init /\ [][NextParser]_vars

\* the caller collects one more match record
AddFilterMatch ==
    /\ pc = "start"
    /\ Len(matches_list) < MaxMatches
    /\ \E m \in FilterRecords : matches_list' = Append(matches_list, m)
    /\ UNCHANGED laterVars
    /\ UNCHANGED <<libraryVars, weatherVars>>
    /\ UNCHANGED <<fields, line, parsed, criteria, filtered_matches,
                   criteria2, refiltered, team_stats, tiebreaker_order,
                   tournament_table, pc>>

\* filtered = filter_matches_by_criteria(matches_list, **criteria)
FilterCall ==
    /\ pc = "start"
    /\ \E cs \in CriteriaSeqs(MaxCriteria) :
        /\ criteria' = cs
        /\ filtered_matches' = filter_matches_by_criteria(matches_list, cs)
    /\ pc' = "filtered"
    /\ UNCHANGED laterVars
    /\ UNCHANGED <<libraryVars, weatherVars>>
    /\ UNCHANGED <<fields, line, parsed, matches_list, criteria2, refiltered,
                   team_stats, tiebreaker_order, tournament_table>>

\* the caller filters the result again, by criteria over other keys
FilterAgain ==
    /\ pc = "filtered"
    /\ criteria # <<>>
    /\ \E cs \in CriteriaSeqs(MaxCriteria - Len(criteria)) :
        /\ cs # <<>>
        /\ Keys(cs) \cap Keys(criteria) = {}
        /\ criteria2' = cs
        /\ refiltered' = filter_matches_by_criteria(filtered_matches, cs)
    /\ pc' = "refiltered"
    /\ UNCHANGED laterVars
    /\ UNCHANGED <<libraryVars, weatherVars>>
    /\ UNCHANGED <<fields, line, parsed, matches_list, criteria,
                   filtered_matches, team_stats, tiebreaker_order,
                   tournament_table>>

NextFilter == AddFilterMatch \/ FilterCall \/ FilterAgain

SpecFilter == Init /\ [][NextFilter]_vars

\* the caller collects one more match record
AddStatsMatch ==
    /\ pc = "start"
    /\ Len(matches_list) < MaxGames
    /\ \E m \in StatsRecords : matches_list' = Append(matches_list, m)
    /\ UNCHANGED laterVars
    /\ UNCHANGED <<libraryVars, weatherVars>>
    /\ UNCHANGED <<fields, line, parsed, criteria, filtered_matches,
                   criteria2, refiltered, team_stats, tiebreaker_order,
                   tournament_table, pc>>

\* team_stats = calculate_advanced_team_stats(matches_list)
Aggregate ==
    /\ pc = "start"
    /\ team_stats' = calculate_advanced_team_stats(matches_list)
    /\ pc' = "aggregated"
    /\ UNCHANGED laterVars
    /\ UNCHANGED <<libraryVars, weatherVars>>
    /\ UNCHANGED <<fields, line, parsed, matches_list, criteria,
                   filtered_matches, criteria2, refiltered, tiebreaker_order,
                   tournament_table>>

NextStats == AddStatsMatch \/ Aggregate

SpecStats == Init /\ [][NextStats]_vars

\* the caller puts one more team into the mapping
AddTeam ==
    /\ pc = "start"
    /\ Len(team_stats) < MaxTeams
    /\ Len(team_stats) < Len(TeamNames)
    /\ \E season \in SeasonPool :
          team_stats' =
              Append(team_stats,
                     [name |-> TeamNames[Len(team_stats) + 1],
                      stats |-> StatsOf(season)])
    /\ UNCHANGED laterVars
    /\ UNCHANGED <<libraryVars, weatherVars>>
    /\ UNCHANGED <<fields, line, parsed, matches_list, criteria,
                   filtered_matches, criteria2, refiltered, tiebreaker_order,
                   tournament_table, pc>>

\* tournament_table = rank_teams_advanced(team_stats, tiebreaker_order)
RankCall ==
    /\ pc = "start"
    /\ \E arg \in OrderArgs :
        /\ tiebreaker_order' = arg
        /\ tournament_table' = rank_teams_advanced(team_stats, arg)
    /\ pc' = "ranked"
    /\ UNCHANGED laterVars
    /\ UNCHANGED <<libraryVars, weatherVars>>
    /\ UNCHANGED <<fields, line, parsed, matches_list, criteria,
                   filtered_matches, criteria2, refiltered, team_stats>>

\* the caller's dict comprehension over the rows of a standings table: the
\* entries of the mapping, inserted in the order of the table
RebuildInTableOrder(ts, table) ==
    [i \in 1..Len(table) |->
        ts[CHOOSE k \in 1..Len(ts) : ts[k].name = table[i].name]]

\* the caller rebuilds the mapping in the order of the standings and ranks
\* it again: reranked = rank_teams_advanced(rebuilt_stats, tiebreaker_order)
RerankCall ==
    /\ pc = "ranked"
    /\ rebuilt_stats' = RebuildInTableOrder(team_stats, tournament_table)
    /\ reranked' =
           rank_teams_advanced(
               RebuildInTableOrder(team_stats, tournament_table),
               tiebreaker_order)
    /\ pc' = "reranked"
    /\ UNCHANGED <<report, matches_reordered, stats_reordered>>
    /\ UNCHANGED <<libraryVars, weatherVars>>
    /\ UNCHANGED <<fields, line, parsed, matches_list, criteria,
                   filtered_matches, criteria2, refiltered, team_stats,
                   tiebreaker_order, tournament_table>>

NextRanker == AddTeam \/ RankCall \/ RerankCall

SpecRanker == Init /\ [][NextRanker]_vars

\* ------------------------------------------------------------------------
\* The report: the caller collects match records and a stats mapping, ranks
\* the mapping at some moment (teams put in afterwards are missing from the
\* standings) and asks for the report

ReportRecords ==
    {Match("2024-03-10", "Gamma", 2, "Alpha", 1, "National Arena", 15320),
     Match("2024-03-10", "Beta", 0, "Gamma", 3, "City Park", 800),
     Match("2024-10-01", "Alpha", 0, "Gamma", 1, "National Arena", 15320),
     Match("2024-10-01", "Beta", 1, "Gamma", 1, "City Park", 20000),
     Match("2024-02-29", "Beta", 2, "Alpha", 0, "City Park", 800)}

ReportSeasons ==
    {<<HomeGame(2, 0), HomeGame(1, 0)>>,
     <<HomeGame(1, 0)>>,
     <<HomeGame(1, 1)>>}

AddReportMatch ==
    /\ pc = "start"
    /\ Len(matches_list) < MaxGames
    /\ \E m \in ReportRecords : matches_list' = Append(matches_list, m)
    /\ UNCHANGED laterVars
    /\ UNCHANGED <<libraryVars, weatherVars>>
    /\ UNCHANGED <<fields, line, parsed, criteria, filtered_matches,
                   criteria2, refiltered, team_stats, tiebreaker_order,
                   tournament_table, pc>>

AddReportTeam ==
    /\ pc = "start"
    /\ Len(team_stats) < MaxTeams
    /\ Len(team_stats) < Len(TeamNames)
    /\ \E season \in ReportSeasons :
          team_stats' =
              Append(team_stats,
                     [name |-> TeamNames[Len(team_stats) + 1],
                      stats |-> StatsOf(season)])
    /\ UNCHANGED laterVars
    /\ UNCHANGED <<libraryVars, weatherVars>>
    /\ UNCHANGED <<fields, line, parsed, matches_list, criteria,
                   filtered_matches, criteria2, refiltered, tiebreaker_order,
                   tournament_table, pc>>

\* tournament_table = rank_teams_advanced(team_stats)
RankForReport ==
    /\ pc = "start"
    /\ tournament_table' = rank_teams_advanced(team_stats, <<>>)
    /\ UNCHANGED laterVars
    /\ UNCHANGED <<libraryVars, weatherVars>>
    /\ UNCHANGED <<fields, line, parsed, matches_list, criteria,
                   filtered_matches, criteria2, refiltered, team_stats,
                   tiebreaker_order, pc>>

\* report = generate_analytics_report(matches_list, team_stats,
\*                                    tournament_table)
ReportCall ==
    /\ pc = "start"
    /\ report' =
           Return(generate_analytics_report(matches_list, team_stats,
                                            tournament_table))
    /\ pc' = "reported"
    /\ UNCHANGED <<rebuilt_stats, reranked, matches_reordered,
                   stats_reordered>>
    /\ UNCHANGED <<libraryVars, weatherVars>>
    /\ UNCHANGED <<fields, line, parsed, matches_list, criteria,
                   filtered_matches, criteria2, refiltered, team_stats,
                   tiebreaker_order, tournament_table>>

\* the stages before the report, called with nothing collected yet
FilterNothing ==
    /\ matches_list = <<>> /\ team_stats = <<>> /\ tournament_table = <<>>
    /\ FilterCall

AggregateNothing ==
    /\ matches_list = <<>>
    /\ Aggregate

RankNothing ==
    /\ team_stats = <<>>
    /\ RankCall

NextReport ==
    \/ AddReportMatch
    \/ AddReportTeam
    \/ RankForReport
    \/ ReportCall
    \/ FilterNothing
    \/ AggregateNothing
    \/ RankNothing

SpecReport == Init /\ [][NextReport]_vars

\* ------------------------------------------------------------------------
\* The pipeline: the caller filters the collected records, aggregates what
\* the filter returned, ranks the mapping, asks for the report and then
\* makes every call once more.  A call is handed references to the caller's
\* list and mapping, so each step also says what the call left in them.

\* the list after a call that sorted it by date where it stands
MatchesSortedInPlace(ms) == SortByDate(ms)

\* line 75: the filter narrows a copy, then lists built by comprehension
MatchesAfterFilter(ms) == ms

\* line 111: sorted() builds a new list; line 128 sorts the function's own
\* lists of tuples
MatchesAfterAggregate(ms) == ms

\* lines 220-228 and 243: the list that is sorted holds new dicts
StatsAfterRank(ts) == ts

\* lines 294-356: the report only reads its three arguments
MatchesAfterReport(ms) == ms

PipelineCriteria ==
    {<<>>,
     <<TextCriterion("team", "Gamma")>>,
     <<TextCriterion("date_from", "2024-03-10"),
       NumberCriterion("min_total_goals", 2)>>,
     <<TextCriterion("stadium", "Nowhere")>>}

PipelineOrders == {<<>>, <<<<"goals_for", "points">>>>}

PipelineFilter ==
    /\ pc = "start"
    /\ \E cs \in PipelineCriteria :
        /\ criteria' = cs
        /\ filtered_matches' = filter_matches_by_criteria(matches_list, cs)
    /\ matches_list' = MatchesAfterFilter(matches_list)
    /\ pc' = "filtered"
    /\ UNCHANGED laterVars
    /\ UNCHANGED <<libraryVars, weatherVars>>
    /\ UNCHANGED <<fields, line, parsed, criteria2, refiltered, team_stats,
                   tiebreaker_order, tournament_table>>

PipelineAggregate ==
    /\ pc = "filtered"
    /\ team_stats' = calculate_advanced_team_stats(filtered_matches)
    /\ filtered_matches' = MatchesAfterAggregate(filtered_matches)
    /\ pc' = "aggregated"
    /\ UNCHANGED laterVars
    /\ UNCHANGED <<libraryVars, weatherVars>>
    /\ UNCHANGED <<fields, line, parsed, matches_list, criteria, criteria2,
                   refiltered, tiebreaker_order, tournament_table>>

PipelineRank ==
    /\ pc = "aggregated"
    /\ \E arg \in PipelineOrders :
        /\ tiebreaker_order' = arg
        /\ tournament_table' = rank_teams_advanced(team_stats, arg)
    /\ team_stats' = StatsAfterRank(team_stats)
    /\ pc' = "ranked"
    /\ UNCHANGED laterVars
    /\ UNCHANGED <<libraryVars, weatherVars>>
    /\ UNCHANGED <<fields, line, parsed, matches_list, criteria,
                   filtered_matches, criteria2, refiltered>>

PipelineReport ==
    /\ pc = "ranked"
    /\ report' =
           Return(generate_analytics_report(filtered_matches, team_stats,
                                            tournament_table))
    /\ filtered_matches' = MatchesAfterReport(filtered_matches)
    /\ pc' = "reported"
    /\ UNCHANGED <<rebuilt_stats, reranked, matches_reordered,
                   stats_reordered>>
    /\ UNCHANGED <<libraryVars, weatherVars>>
    /\ UNCHANGED <<fields, line, parsed, matches_list, criteria, criteria2,
                   refiltered, team_stats, tiebreaker_order,
                   tournament_table>>

\* every call made once more, on the arguments of the first time
PipelineRepeat ==
    /\ pc = "reported"
    /\ filtered_matches' = filter_matches_by_criteria(matches_list, criteria)
    /\ team_stats' = calculate_advanced_team_stats(filtered_matches)
    /\ tournament_table' = rank_teams_advanced(team_stats, tiebreaker_order)
    /\ report' =
           Return(generate_analytics_report(filtered_matches, team_stats,
                                            tournament_table))
    /\ matches_list' = MatchesAfterFilter(matches_list)
    /\ pc' = "repeated"
    /\ UNCHANGED <<rebuilt_stats, reranked, matches_reordered,
                   stats_reordered>>
    /\ UNCHANGED <<libraryVars, weatherVars>>
    /\ UNCHANGED <<fields, line, parsed, criteria, criteria2, refiltered,
                   tiebreaker_order>>

NextPipeline ==
    \/ AddReportMatch
    \/ PipelineFilter
    \/ PipelineAggregate
    \/ PipelineRank
    \/ PipelineReport
    \/ PipelineRepeat

SpecPipeline == Init /\ [][NextPipeline]_vars

\* ------------------------------------------------------------------------
\* The aggregator called on the same records in two orders

OrderRecords ==
    {Match("2024-03-10", "Alpha", 2, "Beta", 1, "National Arena", 15320),
     Match("2024-03-10", "Beta", 1, "Alpha", 0, "City Park", 801),
     Match("2024-10-01", "Alpha", 1, "Beta", 1, "National Arena", 800),
     Match("2024-10-01", "Beta", 0, "Gamma", 1, "City Park", 15320),
     Match("2024-03-10", "Alpha", 1, "Alpha", 0, "National Arena", 801),
     Match("2024-2-5", "Gamma", 3, "Alpha", 0, "City Park", 800)}

\* the lists that hold the elements of s, each as often as s does
Reorderings(s) ==
    {[i \in 1..Len(s) |-> s[f[i]]] :
        f \in {g \in [1..Len(s) -> 1..Len(s)] :
                  \A i \in 1..Len(s) : \E j \in 1..Len(s) : g[j] = i}}

AddOrderMatch ==
    /\ pc = "start"
    /\ Len(matches_list) < MaxGames
    /\ \E m \in OrderRecords : matches_list' = Append(matches_list, m)
    /\ UNCHANGED laterVars
    /\ UNCHANGED <<libraryVars, weatherVars>>
    /\ UNCHANGED <<fields, line, parsed, criteria, filtered_matches,
                   criteria2, refiltered, team_stats, tiebreaker_order,
                   tournament_table, pc>>

\* team_stats = calculate_advanced_team_stats(matches_list), and the same
\* call on the records in another order
AggregateBothOrders ==
    /\ pc = "start"
    /\ team_stats' = calculate_advanced_team_stats(matches_list)
    /\ \E other \in Reorderings(matches_list) :
        /\ matches_reordered' = other
        /\ stats_reordered' = calculate_advanced_team_stats(other)
    /\ pc' = "compared"
    /\ UNCHANGED <<rebuilt_stats, reranked, report>>
    /\ UNCHANGED <<libraryVars, weatherVars>>
    /\ UNCHANGED <<fields, line, parsed, matches_list, criteria,
                   filtered_matches, criteria2, refiltered, tiebreaker_order,
                   tournament_table>>

NextOrder == AddOrderMatch \/ AggregateBothOrders

SpecOrder == Init /\ [][NextOrder]_vars

\* ------------------------------------------------------------------------
\* A library with two titles and two readers: the calls a front desk makes

LibraryIsbns == {"B1", "B2"}

LibraryReaders == {"R1", "R2"}

\* the card of a title: what add_book is given besides the copies
Card(isbn, title, author, year) ==
    [isbn |-> isbn, title |-> title, author |-> author, year |-> year]

CardOf(isbn) ==
    IF isbn = "B1" THEN Card("B1", "Clean Code", "Robert Martin", 2008)
    ELSE Card(isbn, "Design Patterns", "Erich Gamma", 1994)

\* cards that Book refuses
BadCards ==
    {Card("", "Clean Code", "Robert Martin", 2008),
     Card("B2", "", "Erich Gamma", 1994),
     Card("B2", "Design Patterns", "", 1994),
     Card("B2", "Design Patterns", "Erich Gamma", 999),
     Card("B2", "Design Patterns", "Erich Gamma", CurrentYear + 1)}

CopiesPool == {-1, 1, 2}

MaxCopies == 2

MaxLoans == 2

NameOf(reader_id) == IF reader_id = "R1" THEN "Alice Smith" ELSE "Bob Jones"

EmailOf(reader_id) ==
    IF reader_id = "R1" THEN "alice@email.com" ELSE "bob@mail.example.org"

\* forms that Reader refuses
BadForms ==
    {<<"", "Bob Jones", "bob@email.com">>,
     <<"R2", "", "bob@email.com">>,
     <<"R2", "Bob Jones", "bob.email.com">>,
     <<"R2", "Bob Jones", "bob@email">>,
     <<"R2", "Bob Jones", "bob@.com">>,
     <<"R2", "Bob Jones", "bob@email.com.">>,
     <<"R2", "Bob Jones", "bob@home@email.com">>}

\* add_book with a good card; the desk keeps a title within MaxCopies
AddBookCall ==
    /\ \E isbn \in LibraryIsbns : \E copies \in CopiesPool :
        /\ isbn \in DOMAIN books =>
               /\ books[isbn].total_copies + copies <= MaxCopies
               /\ books[isbn].total_copies + copies >= -1
        /\ add_book(isbn, CardOf(isbn).title, CardOf(isbn).author,
                    CardOf(isbn).year, copies)
    /\ UNCHANGED <<tournamentVars, weatherVars>>

\* add_book with a card that is not in order
AddBadBookCall ==
    /\ \E card \in BadCards :
        /\ card.isbn \notin DOMAIN books
        /\ add_book(card.isbn, card.title, card.author, card.year, 1)
    /\ UNCHANGED <<tournamentVars, weatherVars>>

RegisterCall ==
    /\ \E reader_id \in LibraryReaders :
        register_reader(reader_id, NameOf(reader_id), EmailOf(reader_id))
    /\ UNCHANGED <<tournamentVars, weatherVars>>

RegisterBadCall ==
    /\ \E form \in BadForms :
        /\ form[1] \notin DOMAIN readers
        /\ register_reader(form[1], form[2], form[3])
    /\ UNCHANGED <<tournamentVars, weatherVars>>

BorrowCall ==
    /\ Len(borrow_history) < MaxLoans
    /\ \E reader_id \in LibraryReaders : \E isbn \in LibraryIsbns :
        borrow_book(reader_id, isbn)
    /\ UNCHANGED <<tournamentVars, weatherVars>>

ReturnCall ==
    /\ \E reader_id \in LibraryReaders : \E isbn \in LibraryIsbns :
        return_book(reader_id, isbn)
    /\ UNCHANGED <<tournamentVars, weatherVars>>

StatsCall ==
    /\ \E reader_id \in LibraryReaders : get_reader_stats(reader_id)
    /\ UNCHANGED <<tournamentVars, weatherVars>>

NextLibrary ==
    \/ AddBookCall
    \/ AddBadBookCall
    \/ RegisterCall
    \/ RegisterBadCall
    \/ BorrowCall
    \/ ReturnCall
    \/ StatsCall

SpecLibrary == Init /\ [][NextLibrary]_vars

\* ------------------------------------------------------------------------
\* A shelf of single copies, one more than a reader may hold, and one reader
\* who takes them

ShelfIsbn(k) == "S" \o Str(k)

ShelfIsbns == {ShelfIsbn(k) : k \in 1..(MAX_BOOKS + 1)}

\* the next title is put on the shelf
ShelfAddCall ==
    /\ Cardinality(DOMAIN books) <= MAX_BOOKS
    /\ add_book(ShelfIsbn(Cardinality(DOMAIN books) + 1), "Collected Works",
                "Various", 2001, 1)
    /\ UNCHANGED <<tournamentVars, weatherVars>>

ShelfRegisterCall ==
    /\ register_reader("R1", NameOf("R1"), EmailOf("R1"))
    /\ UNCHANGED <<tournamentVars, weatherVars>>

ShelfBorrowCall ==
    /\ Len(borrow_history) <= MAX_BOOKS
    /\ \E isbn \in ShelfIsbns : borrow_book("R1", isbn)
    /\ UNCHANGED <<tournamentVars, weatherVars>>

\* the reader gives a book back when holding as many as allowed
ShelfReturnCall ==
    /\ "R1" \in DOMAIN readers
    /\ Cardinality(readers["R1"].borrowed_books) >= MAX_BOOKS
    /\ \E isbn \in ShelfIsbns : return_book("R1", isbn)
    /\ UNCHANGED <<tournamentVars, weatherVars>>

NextShelf ==
    \/ ShelfAddCall
    \/ ShelfRegisterCall
    \/ ShelfBorrowCall
    \/ ShelfReturnCall

SpecShelf == Init /\ [][NextShelf]_vars

\* ------------------------------------------------------------------------
\* The weather desk: readings are noted one by one, for a week or for fewer
\* or more days, and the list is analysed

\* readings at and around the two thresholds
Readings == {9, 10, 24, 25}

MaxDays == 8

AddReading ==
    /\ analysis = NotCalled
    /\ Len(temperatures) < MaxDays
    /\ \E temp \in Readings : temperatures' = Append(temperatures, temp)
    /\ UNCHANGED <<analysis, tournamentVars, libraryVars>>

AnalyzeCall ==
    /\ analysis = NotCalled
    /\ analysis' = analyze_temperature(temperatures)
    /\ UNCHANGED <<temperatures, tournamentVars, libraryVars>>

NextWeather == AddReading \/ AnalyzeCall

SpecWeather == Init /\ [][NextWeather]_vars

\* ------------------------------------------------------------------------
\* The reading room: three single-copy titles that one reader borrows and
\* returns again and again, and the list of the popular books

RoomIsbns == {"B1", "B2", "B3"}

\* the borrowings the room is watched for
MaxBorrows == 3

LimitPool == {-1, 0, 1, 2, 10}

\* the room is stocked and the reader registered before the first loan
RoomAddCall ==
    /\ borrow_history = <<>>
    /\ \E isbn \in RoomIsbns :
        /\ isbn \notin DOMAIN books
        /\ add_book(isbn, CardOf(isbn).title, CardOf(isbn).author,
                    CardOf(isbn).year, 1)
    /\ UNCHANGED <<tournamentVars, weatherVars>>

RoomRegisterCall ==
    /\ "R1" \notin DOMAIN readers
    /\ register_reader("R1", NameOf("R1"), EmailOf("R1"))
    /\ UNCHANGED <<tournamentVars, weatherVars>>

RoomBorrowCall ==
    /\ Len(borrow_history) < MaxBorrows
    /\ \E isbn \in RoomIsbns : borrow_book("R1", isbn)
    /\ UNCHANGED <<tournamentVars, weatherVars>>

RoomReturnCall ==
    /\ \E isbn \in RoomIsbns : return_book("R1", isbn)
    /\ UNCHANGED <<tournamentVars, weatherVars>>

PopularCall ==
    /\ \E limit \in LimitPool : get_popular_books(limit)
    /\ UNCHANGED <<tournamentVars, weatherVars>>

NextRoom ==
    \/ RoomAddCall
    \/ RoomRegisterCall
    \/ RoomBorrowCall
    \/ RoomReturnCall
    \/ PopularCall

SpecRoom == Init /\ [][NextRoom]_vars

\* ------------------------------------------------------------------------
\* The catalogue desk: a title is added and added again, with its card,
\* with another card and with cards Book refuses, while a reader borrows it

\* another card for a title: a later edition
Reprint(isbn) ==
    Card(isbn, "Refactoring", "Martin Fowler", 2018)

\* cards Book refuses, for an ISBN that may be in the catalogue already
RefusedCards(isbn) ==
    {Card(isbn, "", "Erich Gamma", 1994),
     Card(isbn, "Design Patterns", "", 1994),
     Card(isbn, "Design Patterns", "Erich Gamma", 999),
     Card(isbn, "Design Patterns", "Erich Gamma", CurrentYear + 1)}

StockCards(isbn) == {CardOf(isbn), Reprint(isbn)} \cup RefusedCards(isbn)

StockAddCall ==
    /\ \E isbn \in {"B1", ""} : \E card \in StockCards(isbn) :
       \E copies \in CopiesPool :
        /\ isbn \in DOMAIN books =>
               /\ books[isbn].total_copies + copies <= MaxCopies
               /\ books[isbn].total_copies + copies >= -1
        /\ add_book(isbn, card.title, card.author, card.year, copies)
    /\ UNCHANGED <<tournamentVars, weatherVars>>

StockRegisterCall ==
    /\ register_reader("R1", NameOf("R1"), EmailOf("R1"))
    /\ UNCHANGED <<tournamentVars, weatherVars>>

StockBorrowCall ==
    /\ Len(borrow_history) < MaxLoans
    /\ borrow_book("R1", "B1")
    /\ UNCHANGED <<tournamentVars, weatherVars>>

StockReturnCall ==
    /\ return_book("R1", "B1")
    /\ UNCHANGED <<tournamentVars, weatherVars>>

NextStock ==
    \/ StockAddCall
    \/ StockRegisterCall
    \/ StockBorrowCall
    \/ StockReturnCall

SpecStock == Init /\ [][NextStock]_vars

\* ------------------------------------------------------------------------
\* A loan desk with a clock: one registered reader, two single-copy titles,
\* and time that passes between the calls.  A call reads the clock once.

\* the half days that pass at once: six days, the loan period, half a day
\* more and a day more than the loan period
TickPool ==
    {12, LOAN_PERIOD_DAYS * TicksPerDay, LOAN_PERIOD_DAYS * TicksPerDay + 1,
     (LOAN_PERIOD_DAYS + 1) * TicksPerDay}

\* the desk is watched for 21 days
MaxClock == 42

Tick ==
    /\ \E d \in TickPool :
        /\ now + d <= MaxClock
        /\ now' = now + d
    /\ UNCHANGED <<libraryState, last_call, tournamentVars, weatherVars>>

\* the desk is stocked and the reader registered before it opens
LoanAddCall ==
    /\ now = 0
    /\ \E isbn \in LibraryIsbns :
        /\ isbn \notin DOMAIN books
        /\ add_book(isbn, CardOf(isbn).title, CardOf(isbn).author,
                    CardOf(isbn).year, 1)
    /\ UNCHANGED <<tournamentVars, weatherVars>>

LoanRegisterCall ==
    /\ now = 0
    /\ "R1" \notin DOMAIN readers
    /\ register_reader("R1", NameOf("R1"), EmailOf("R1"))
    /\ UNCHANGED <<tournamentVars, weatherVars>>

LoanBorrowCall ==
    /\ Len(borrow_history) < MaxLoans
    /\ \E isbn \in LibraryIsbns : borrow_book("R1", isbn)
    /\ UNCHANGED <<tournamentVars, weatherVars>>

LoanReturnCall ==
    /\ \E isbn \in LibraryIsbns : return_book("R1", isbn)
    /\ UNCHANGED <<tournamentVars, weatherVars>>

\* calculate_fine called from outside, for a reader with or without loans
FineCall ==
    /\ \E reader_id \in LibraryReaders : \E isbn \in LibraryIsbns :
        last_call' =
            Called("calculate_fine", <<reader_id, isbn>>,
                   Return(calculate_fine(reader_id, isbn, now)))
    /\ UNCHANGED <<libraryState, now, tournamentVars, weatherVars>>

NextLoans ==
    \/ Tick
    \/ LoanAddCall
    \/ LoanRegisterCall
    \/ LoanBorrowCall
    \/ LoanReturnCall
    \/ FineCall

SpecLoans == Init /\ [][NextLoans]_vars

\* ------------------------------------------------------------------------
\* Claims about the parser (checked under SpecParser)

\* a date written YYYY-MM-DD, zero-padded, that exists in the calendar
IsIsoDate(s) ==
    /\ Len(s) = 10
    /\ \A i \in {1, 2, 3, 4, 6, 7, 9, 10} : Char(s, i) \in Digits
    /\ Char(s, 5) = "-" /\ Char(s, 8) = "-"
    /\ DateExists(NumeralVal(SubSeq(s, 1, 4), 0),
                  NumeralVal(SubSeq(s, 6, 7), 0),
                  NumeralVal(SubSeq(s, 9, 10), 0))

Trimmed(s) ==
    Len(s) > 0 /\ Char(s, 1) # " " /\ Char(s, Len(s)) # " "

RecordValid(r) ==
    /\ DOMAIN r = {"date", "team1", "score1", "team2", "score2", "stadium",
                   "attendance"}
    /\ Trimmed(r.team1) /\ Trimmed(r.team2) /\ Trimmed(r.stadium)
    /\ r.score1 \in Nat /\ r.score2 \in Nat
    /\ r.attendance \in Nat /\ r.attendance > 0

BlankPieces == {"", " "}

\* what the pieces of a line say about it, whatever the parser does
WrongSegmentCount(f) == f.variant \in {"missing", "extra"}

WrongBlockShape(f) == f.variant \in {"noparen", "dash"} \/ f.score1.text = ""

BlankName(f) ==
    f.team1 \in BlankPieces \/ f.team2 \in BlankPieces
        \/ f.stadium \in BlankPieces

BadScore(f) ==
    \/ ~f.score1.isint \/ ~f.score2.isint
    \/ f.score1.val < 0 \/ f.score2.val < 0

BadAttendance(f) == ~f.attendance.isint \/ f.attendance.val <= 0

\* the all-or-nothing contract but for its clause on the date: it holds
ParseAllOrNothingButDate ==
    pc = "parsed" =>
        /\ parsed.outcome \in {"return", "raise"}
        /\ parsed.outcome = "return" =>
              /\ RecordValid(parsed.value)
              /\ parsed.value.score1 = fields.score1.val
              /\ parsed.value.score2 = fields.score2.val
              /\ parsed.value.attendance = fields.attendance.val
        /\ parsed.outcome = "raise" => "value" \notin DOMAIN parsed
        /\ (\/ WrongSegmentCount(fields) \/ WrongBlockShape(fields)
            \/ BlankName(fields) \/ BadScore(fields) \/ BadAttendance(fields))
              => parsed.outcome = "raise"

\* C1: parse_match_data is all-or-nothing: every record it returns has
\* non-empty trimmed names, scores >= 0 and attendance > 0, and every line
\* with a bad field, a wrong segment count, a wrong date or a wrong
\* team/score shape fails and returns no record.
C1_ParseAllOrNothing ==
    /\ ParseAllOrNothingButDate
    /\ pc = "parsed" /\ ~IsIsoDate(fields.date) => parsed.outcome = "raise"

\* C2: every line whose date segment is not a real calendar date written
\* YYYY-MM-DD is rejected, so the date of every returned record is a
\* zero-padded ISO date.
C2_DateIsIso ==
    pc = "parsed" =>
        /\ ~IsIsoDate(fields.date) => parsed.outcome = "raise"
        /\ parsed.outcome = "return" => IsIsoDate(parsed.value.date)

\* the dates of the pool that int() and datetime.date() reject
UnreadableDates ==
    {"2023-02-29", "2024-02-30", "2024-13-01", "2024-02", "2024-02-01-07",
     "20x4-01-01", "", "0000-01-01"}

Structural(f) ==
    \/ WrongSegmentCount(f) \/ f.date \in UnreadableDates
    \/ WrongBlockShape(f)

\* the message of the first check that fails, in the order of the checks
ExpectedMessage(f) ==
    CASE WrongSegmentCount(f) ->
            "Invalid format: expected 4 parts separated by ' | '"
      [] ~WrongSegmentCount(f) /\ f.date \in UnreadableDates ->
            "Invalid date format: expected YYYY-MM-DD"
      [] ~WrongSegmentCount(f) /\ f.date \notin UnreadableDates
           /\ WrongBlockShape(f) ->
            "Invalid teams/score format: expected 'Team1 (X:Y) Team2'"
      [] ~Structural(f) /\ BlankName(f) ->
            "Team names and stadium cannot be empty"
      [] ~Structural(f) /\ ~BlankName(f) /\ BadScore(f) ->
            "Invalid score: must be non-negative integers"
      [] OTHER -> "Invalid attendance: must be a positive integer"

Fails(f) ==
    Structural(f) \/ BlankName(f) \/ BadScore(f) \/ BadAttendance(f)

LexLess(a, b) ==
    \E k \in 1..Len(b) :
        /\ k <= Len(a) + 1
        /\ SubSeq(a, 1, k - 1) = SubSeq(b, 1, k - 1)
        /\ k = Len(a) + 1 \/ Ord(Char(a, k)) < Ord(Char(b, k))

Satisfies(m, c) ==
    /\ c.key = "team" => c.text \in {m.team1, m.team2}
    /\ c.key = "date_from" => ~LexLess(m.date, c.text)
    /\ c.key = "date_to" => ~LexLess(c.text, m.date)
    /\ c.key = "min_attendance" => ~(m.attendance < c.number)
    /\ c.key = "max_attendance" => ~(m.attendance > c.number)
    /\ c.key = "min_total_goals" => ~(m.score1 + m.score2 < c.number)
    /\ c.key = "stadium" => c.text = m.stadium

SatisfiesAll(m, cs) == \A i \in 1..Len(cs) : Satisfies(m, cs[i])

\* C4: the filter returns exactly the input records that satisfy every
\* recognized criterion given, in the order of the input; keys it does not
\* recognize change nothing, and an empty input gives an empty output.
C4_FilterExact ==
    pc \in {"filtered", "refiltered"} =>
        filtered_matches =
            SelectSeq(matches_list, LAMBDA m : SatisfiesAll(m, criteria))

\* a call with a recognized and an unrecognized key that dropped the first
\* record and kept the second
C4_Witness ==
    /\ pc = "filtered"
    /\ Len(matches_list) = 2
    /\ filtered_matches = <<matches_list[2]>>
    /\ matches_list[1] # matches_list[2]
    /\ {"referee", "date_to"} \subseteq Keys(criteria)

\* C5: filtering by A and then by B gives what filtering once by A plus B
\* gives, and what filtering by B and then by A gives.
C5_FilterComposition ==
    pc = "refiltered" =>
        /\ refiltered =
              filter_matches_by_criteria(matches_list, criteria \o criteria2)
        /\ refiltered =
              filter_matches_by_criteria(
                  filter_matches_by_criteria(matches_list, criteria2),
                  criteria)

\* both calls narrowed the list
C5_Witness ==
    /\ pc = "refiltered"
    /\ Len(refiltered) < Len(filtered_matches)
    /\ Len(filtered_matches) < Len(matches_list)

\* ------------------------------------------------------------------------
\* Claims about the aggregator (checked under SpecStats)

RECURSIVE SumOf(_, _)
SumOf(f, S) ==
    IF S = {} THEN 0
    ELSE LET x == CHOOSE y \in S : TRUE IN f[x] + SumOf(f, S \ {x})

Teams == 1..Len(team_stats)

Rounds == 1..Len(matches_list)

\* C6: over all teams goals_for and goals_against both sum to the goals of
\* all matches, and matches_played sums to twice the number of matches,
\* also when a record names one team on both sides.
C6_Conservation ==
    pc = "aggregated" =>
        LET goals ==
                SumOf([i \in Rounds |->
                          matches_list[i].score1 + matches_list[i].score2],
                      Rounds)
        IN  /\ SumOf([t \in Teams |-> team_stats[t].stats.goals_for], Teams)
                  = goals
            /\ SumOf([t \in Teams |-> team_stats[t].stats.goals_against],
                     Teams) = goals
            /\ SumOf([t \in Teams |-> team_stats[t].stats.matches_played],
                     Teams) = 2 * Len(matches_list)

\* three matches aggregated, one of them of a team against itself
C6_Witness ==
    /\ pc = "aggregated"
    /\ Len(matches_list) = 3
    /\ Len(team_stats) = 3
    /\ \E i \in Rounds : matches_list[i].team1 = matches_list[i].team2
    /\ \E i \in Rounds : matches_list[i].score1 # matches_list[i].score2

\* C7: for every team points = 3 * wins + draws, wins + draws + losses =
\* matches_played and goal_diff = goals_for - goals_against.
C7_PointsConsistency ==
    pc = "aggregated" =>
        \A t \in Teams :
            LET st == team_stats[t].stats
            IN  /\ st.points = 3 * st.wins + st.draws
                /\ st.wins + st.draws + st.losses = st.matches_played
                /\ st.goal_diff = st.goals_for - st.goals_against

\* a team with a win, a draw and a loss
C7_Witness ==
    /\ pc = "aggregated"
    /\ \E t \in Teams :
          LET st == team_stats[t].stats
          IN  st.wins = 1 /\ st.draws = 1 /\ st.losses = 1 /\ st.points = 4

\* the games of a team: <<i, side>> for every side of match i it plays on
GamesOf(name) ==
    {g \in Rounds \X {"home", "away"} :
        \/ g[2] = "home" /\ matches_list[g[1]].team1 = name
        \/ g[2] = "away" /\ matches_list[g[1]].team2 = name}

GameWon(g) ==
    LET m == matches_list[g[1]]
    IN  IF g[2] = "home" THEN m.score1 > m.score2 ELSE m.score2 > m.score1

\* g is played before h: by date, then by place in the input (and the home
\* side of a match before its away side)
GameBefore(g, h) ==
    LET dg == matches_list[g[1]].date
        dh == matches_list[h[1]].date
    IN  \/ LexLess(dg, dh)
        \/ dg = dh /\ g[1] < h[1]
        \/ g[1] = h[1] /\ g[2] = "home" /\ h[2] = "away"

\* the games of the run of wins that ends a team's games
ClosingWins(name) ==
    {g \in GamesOf(name) :
        /\ GameWon(g)
        /\ \A h \in GamesOf(name) : GameBefore(g, h) => GameWon(h)}

\* C8: win_streak is the length of the run of wins at the end of the
\* team's matches in ascending order of date, matches of one date in input
\* order: 0 when the most recent match is no win, matches_played when all
\* are wins.
C8_WinStreak ==
    pc = "aggregated" =>
        \A t \in Teams :
            team_stats[t].stats.win_streak
                = Cardinality(ClosingWins(team_stats[t].name))

\* a team lost, later won twice on the same date, the input not in date
\* order: its streak is 2 of 3 matches
C8_Witness ==
    /\ pc = "aggregated"
    /\ Len(matches_list) = 3
    /\ LexLess(matches_list[3].date, matches_list[1].date)
    /\ matches_list[1].date = matches_list[2].date
    /\ \E t \in Teams :
          /\ team_stats[t].stats.matches_played = 3
          /\ team_stats[t].stats.win_streak = 2

\* ------------------------------------------------------------------------
\* Claims about the ranker (checked under SpecRanker)

Table == 1..Len(tournament_table)

StatsByName(name) ==
    (CHOOSE e \in {team_stats[t] : t \in Teams} : e.name = name).stats

\* the values of a row's team on the criteria of the active order, in order
CriteriaTuple(row) ==
    LET order == ActiveOrder(tiebreaker_order)
    IN  [k \in 1..Len(order) |-> StatsByName(row.name)[order[k]]]

\* a is better than b: greater at the first criterion they differ on
Better(a, b) ==
    \E k \in 1..Len(a) :
        /\ \A j \in 1..(k - 1) : a[j] = b[j]
        /\ a[k] > b[k]

\* C9: for adjacent rows the earlier team's tuple of criteria values is
\* lexicographically greater than or equal to the later team's, and the
\* rank never decreases down the table.
C9_Monotone ==
    pc = "ranked" =>
        \A i \in Table :
            i + 1 \in Table =>
                LET a == CriteriaTuple(tournament_table[i])
                    b == CriteriaTuple(tournament_table[i + 1])
                IN  /\ a = b \/ Better(a, b)
                    /\ tournament_table[i].rank <= tournament_table[i + 1].rank

\* three teams ranked by two criteria, the last one of the mapping first
C9_Witness ==
    /\ pc = "ranked"
    /\ Len(tournament_table) = 3
    /\ tiebreaker_order = << <<"goal_diff", "goals_for">> >>
    /\ tournament_table[1].name = team_stats[3].name
    /\ tournament_table[3].name = team_stats[1].name
    /\ tournament_table[1].goal_diff = tournament_table[2].goal_diff

\* C10: the first row has rank 1; a later row has the rank of the row
\* before it if and only if the two teams are equal on every criterion of
\* the active order, and else its own 1-based position; so teams equal on
\* all criteria share a rank, and a team's rank is one more than the number
\* of teams better than it.
C10_CompetitionRanking ==
    pc = "ranked" =>
        /\ 1 \in Table => tournament_table[1].rank = 1
        /\ \A i \in Table \ {1} :
              LET tie == CriteriaTuple(tournament_table[i])
                            = CriteriaTuple(tournament_table[i - 1])
              IN  /\ tie <=> tournament_table[i].rank
                                = tournament_table[i - 1].rank
                  /\ ~tie => tournament_table[i].rank = i
        /\ \A i, j \in Table :
              CriteriaTuple(tournament_table[i])
                    = CriteriaTuple(tournament_table[j])
                  => tournament_table[i].rank = tournament_table[j].rank
        /\ \A i \in Table :
              tournament_table[i].rank
                  = 1 + Cardinality(
                            {j \in Table :
                                Better(CriteriaTuple(tournament_table[j]),
                                       CriteriaTuple(tournament_table[i]))})

\* points 6, 6, 3 under the default order: ranks 1, 1, 3
C10_Witness ==
    /\ pc = "ranked"
    /\ tiebreaker_order = <<>>
    /\ Len(tournament_table) = 3
    /\ [i \in 1..3 |-> tournament_table[i].points] = <<6, 6, 3>>
    /\ [i \in 1..3 |-> tournament_table[i].rank] = <<1, 1, 3>>

\* C11: ranking is idempotent.  When the mapping is rebuilt in the order of
\* the standings and ranked again with the same tie-break order, the second
\* standings are the first ones, row for row; and two teams of the standings
\* that are equal on every criterion stand in the order the mapping held
\* them in.
PositionIn(ts, name) == CHOOSE k \in 1..Len(ts) : ts[k].name = name

C11_IdempotentRanking ==
    /\ pc = "reranked" => reranked = tournament_table
    /\ pc \in {"ranked", "reranked"} =>
           \A i \in Table : \A j \in Table :
               (i < j /\ CriteriaTuple(tournament_table[i])
                             = CriteriaTuple(tournament_table[j]))
                   => PositionIn(team_stats, tournament_table[i].name)
                          < PositionIn(team_stats, tournament_table[j].name)

\* a second ranking has been made of standings that hold a tie and that
\* differ from the order of the mapping
C11_Witness ==
    /\ pc = "reranked"
    /\ Len(reranked) = 3
    /\ rebuilt_stats # team_stats
    /\ \E i \in 1..2 : reranked[i].rank = reranked[i + 1].rank

\* ------------------------------------------------------------------------
\* Claims about the report (checked under SpecReport)

Fixtures == 1..Len(matches_list)

Decisive(i) == matches_list[i].score1 # matches_list[i].score2

WinnerOf(i) ==
    IF matches_list[i].score1 > matches_list[i].score2
    THEN matches_list[i].team1 ELSE matches_list[i].team2

LoserOf(i) ==
    IF matches_list[i].score1 > matches_list[i].score2
    THEN matches_list[i].team2 ELSE matches_list[i].team1

Ranked(name) == \E r \in Table : tournament_table[r].name = name

\* the rank of a team of the standings (a standings table of the ranker
\* holds a team once)
RankIn(name) ==
    tournament_table[CHOOSE r \in Table : tournament_table[r].name = name].rank

\* the matches won by the side with the numerically greater rank
Upsets ==
    {i \in Fixtures :
        /\ Decisive(i)
        /\ Ranked(WinnerOf(i)) /\ Ranked(LoserOf(i))
        /\ RankIn(WinnerOf(i)) > RankIn(LoserOf(i))}

RankGap(i) == RankIn(WinnerOf(i)) - RankIn(LoserOf(i))

\* C12: biggest_upset is null exactly when no decisive match between two
\* teams of the standings was won by the worse-ranked side; otherwise it is
\* the first match in input order with the greatest winner_rank -
\* loser_rank, reported with those two ranks.
C12_BiggestUpset ==
    (pc = "reported" /\ matches_list # <<>> /\ team_stats # <<>>
        /\ tournament_table # <<>>) =>
        LET upset == report.value.biggest_upset
        IN  /\ upset = <<>> <=> Upsets = {}
            /\ Upsets # {} =>
                   LET first ==
                           CHOOSE i \in Upsets :
                               /\ \A j \in Upsets : RankGap(j) <= RankGap(i)
                               /\ \A j \in Upsets :
                                      RankGap(j) = RankGap(i) => i <= j
                   IN  upset = <<[match |-> matches_list[first],
                                  winner_rank |-> RankIn(WinnerOf(first)),
                                  loser_rank |-> RankIn(LoserOf(first))]>>

\* a report names an upset that a smaller upset precedes and that an equal
\* upset in another match follows
C12_Witness ==
    /\ pc = "reported"
    /\ report.value.biggest_upset # <<>>
    /\ \E i \in Upsets : \E j \in Upsets : \E k \in Upsets :
           /\ i < j /\ j < k
           /\ RankGap(i) < RankGap(j)
           /\ RankGap(j) = RankGap(k)
           /\ matches_list[j] # matches_list[k]
           /\ report.value.biggest_upset[1].match = matches_list[j]

\* the teams of the mapping that played, and the efficiency of each
Played == {t \in Teams : team_stats[t].stats.matches_played > 0}

EfficiencyOf(t) ==
    RoundHundredths(team_stats[t].stats.points,
                    team_stats[t].stats.matches_played)

\* the least index of S at which f is greatest
FirstGreatest(S, f) ==
    CHOOSE i \in S :
        /\ \A j \in S : f[j] <= f[i]
        /\ \A j \in S : f[j] = f[i] => i <= j

\* C13: the first maximum wins.  most_efficient_team is the first team in
\* the mapping's order whose points / matches_played, rounded to two
\* decimals, is greatest; most_goals_match and highest_attendance_match are
\* the earliest records with the most goals and the greatest attendance.
C13_FirstMaxWins ==
    (pc = "reported" /\ matches_list # <<>> /\ team_stats # <<>>
        /\ tournament_table # <<>>) =>
        /\ Played # {} =>
               report.value.most_efficient_team =
                   team_stats[FirstGreatest(
                       Played, [t \in Teams |-> EfficiencyOf(t)])].name
        /\ report.value.most_goals_match =
               <<matches_list[FirstGreatest(
                   Fixtures,
                   [i \in Fixtures |->
                       matches_list[i].score1 + matches_list[i].score2])]>>
        /\ report.value.highest_attendance_match =
               <<matches_list[FirstGreatest(
                   Fixtures, [i \in Fixtures |-> matches_list[i].attendance])]>>

\* a report was made where a later team equals the most efficient one, and
\* later records equal the record of most goals and that of the greatest
\* attendance, none of them the first of the list
C13_Witness ==
    /\ pc = "reported"
    /\ report.value.most_efficient_team = "Beta"
    /\ \E t \in Teams :
           /\ team_stats[t].name = "Gamma"
           /\ EfficiencyOf(t) = EfficiencyOf(2)
           /\ EfficiencyOf(1) < EfficiencyOf(2)
    /\ Len(matches_list) = 3
    /\ report.value.most_goals_match = <<matches_list[2]>>
    /\ matches_list[3] # matches_list[2]
    /\ TotalGoals(matches_list[3]) = TotalGoals(matches_list[2])
    /\ \E i \in 1..2 : \E j \in 2..3 :
           /\ i < j
           /\ report.value.highest_attendance_match = <<matches_list[i]>>
           /\ matches_list[i] # matches_list[j]
           /\ matches_list[i].attendance = matches_list[j].attendance

\* C14: empty input degrades gracefully.  The report of a call with an
\* empty match list, an empty mapping or empty standings is the placeholder
\* (empty leader and most efficient team, no matches, no upset, empty
\* distribution and attendance maps); the filter, the aggregator and the
\* ranker return an empty result for an empty input; none of them raises.
C14_GracefulOnEmpty ==
    /\ report.outcome # "raise"
    /\ (pc = "reported"
          /\ (matches_list = <<>> \/ team_stats = <<>>
                 \/ tournament_table = <<>>)) =>
           /\ report.outcome = "return"
           /\ report.value.tournament_leader = ""
           /\ report.value.most_efficient_team = ""
           /\ report.value.most_goals_match = <<>>
           /\ report.value.highest_attendance_match = <<>>
           /\ report.value.biggest_upset = <<>>
           /\ report.value.goal_distribution = <<>>
           /\ report.value.attendance_by_team = <<>>
    /\ (pc = "filtered" /\ matches_list = <<>>) => filtered_matches = <<>>
    /\ (pc = "aggregated" /\ matches_list = <<>>) => team_stats = <<>>
    /\ (pc = "ranked" /\ team_stats = <<>>) => tournament_table = <<>>

\* a report was asked for with records and a mapping but empty standings
C14_Witness ==
    /\ pc = "reported"
    /\ Len(matches_list) = 2
    /\ Len(team_stats) = 2
    /\ tournament_table = <<>>
    /\ report.value.most_goals_match = <<>>

\* ------------------------------------------------------------------------
\* Claims about the pipeline (checked under SpecPipeline)

StatsIn(ts, name) == ts[CHOOSE k \in 1..Len(ts) : ts[k].name = name].stats

NamesIn(ts) == {ts[k].name : k \in 1..Len(ts)}

OrderFreeFields ==
    {"points", "matches_played", "wins", "draws", "losses", "goals_for",
     "goals_against", "goal_diff", "home_points", "away_points",
     "avg_attendance"}

\* no team has two matches of the list on one date
NoTeamTwiceADay ==
    \A i \in Fixtures : \A j \in Fixtures :
        (i # j /\ matches_list[i].date = matches_list[j].date)
            => {matches_list[i].team1, matches_list[i].team2}
                   \cap {matches_list[j].team1, matches_list[j].team2} = {}

\* C16: aggregation does not depend on the order of its input.  For two
\* orderings of the same records every team gets the same points, matches
\* played, wins, draws, losses, goals, home and away points and average
\* attendance, and the same win_streak too when no team has two matches on
\* one date.
C16_OrderIndependent ==
    pc = "compared" =>
        /\ NamesIn(stats_reordered) = NamesIn(team_stats)
        /\ \A name \in NamesIn(team_stats) :
               /\ \A f \in OrderFreeFields :
                      StatsIn(stats_reordered, name)[f]
                          = StatsIn(team_stats, name)[f]
               /\ NoTeamTwiceADay =>
                      StatsIn(stats_reordered, name).win_streak
                          = StatsIn(team_stats, name).win_streak

\* three records of different dates were aggregated in two different orders,
\* a team ending on a win
C16_Witness ==
    /\ pc = "compared"
    /\ Len(matches_list) = 3
    /\ NoTeamTwiceADay
    /\ matches_reordered # matches_list
    /\ matches_reordered[1] = matches_list[3]
    /\ \E name \in NamesIn(team_stats) :
           StatsIn(team_stats, name).win_streak > 0

\* ------------------------------------------------------------------------
\* Claims about the library.  A step of the library is one call; last_call'
\* says which call it was and what the caller got.

\* the step is a call of op
Calls(op) == last_call'.op = op

\* the call of the step returned the pair (FALSE, a message holding text)
Refused(text) ==
    /\ last_call'.result.outcome = "return"
    /\ last_call'.result.value[1] = FALSE
    /\ Contains(last_call'.result.value[2], text)

\* the call of the step raised exc
Raised(exc) ==
    /\ last_call'.result.outcome = "raise"
    /\ last_call'.result.exc = exc

Holds(reader_id, isbn) ==
    reader_id \in DOMAIN readers /\ isbn \in readers[reader_id].borrowed_books

\* the step lends no copy: no book has fewer copies available, no reader
\* holds a book more, no loan is recorded
LendsNothing ==
    /\ \A b \in DOMAIN books :
           books'[b].available_copies >= books[b].available_copies
    /\ \A r \in DOMAIN readers :
           readers'[r].borrowed_books \subseteq readers[r].borrowed_books
    /\ \A r \in DOMAIN active_loans :
           DOMAIN active_loans'[r] \subseteq DOMAIN active_loans[r]
    /\ borrow_history' = borrow_history

AtLimit(reader_id) ==
    /\ reader_id \in DOMAIN readers
    /\ Cardinality(readers[reader_id].borrowed_books) = MAX_BOOKS

\* C17 as the spec states it: no reader ever holds more than MAX_BOOKS = 5
\* books, and every borrow_book by a reader holding 5 books returns (False,
\* a message naming the limit) and lends nothing.
C17_LimitMessageAlways ==
    [][/\ \A r \in DOMAIN readers' :
              Cardinality(readers'[r].borrowed_books) <= MAX_BOOKS
       /\ (Calls("borrow_book") /\ AtLimit(last_call'.args[1])) =>
              Refused("limit") /\ LendsNothing
      ]_vars

\* C17: no reader ever holds more than MAX_BOOKS = 5 books.  A borrow_book
\* by a reader holding 5 books lends nothing and does not return True; when
\* the ISBN is in the catalogue with a copy available it returns (False, a
\* message naming the limit of 5).
C17_LoanLimit ==
    [][/\ \A r \in DOMAIN readers' :
              Cardinality(readers'[r].borrowed_books) <= MAX_BOOKS
       /\ (Calls("borrow_book") /\ AtLimit(last_call'.args[1])) =>
              /\ LendsNothing
              /\ UNCHANGED libraryState
              /\ last_call'.result.outcome = "return" =>
                     last_call'.result.value[1] = FALSE
              /\ (/\ last_call'.args[2] \in DOMAIN books
                  /\ books[last_call'.args[2]].available_copies > 0) =>
                     /\ Refused("limit")
                     /\ Refused(Str(MAX_BOOKS))
      ]_vars

\* the reader holds five books and was refused a sixth, one on the shelf,
\* with the message of the limit
C17_Witness ==
    /\ last_call.op = "borrow_book"
    /\ last_call.result = Return(<<FALSE,
           "Reader has reached the maximum limit of 5 books">>)
    /\ Cardinality(readers["R1"].borrowed_books) = MAX_BOOKS
    /\ last_call.args[2] \in DOMAIN books
    /\ books[last_call.args[2]].available_copies = 1

\* C18: whenever a registered reader holds an existing book, borrow_book by
\* that reader for that book returns (False, a message holding "already
\* borrowed") and raises nothing, and the reader still holds one loan of it.
C18_AlreadyBorrowed ==
    [][(/\ Calls("borrow_book")
        /\ Holds(last_call'.args[1], last_call'.args[2])
        /\ last_call'.args[2] \in DOMAIN books) =>
           /\ Refused("already borrowed")
           /\ last_call'.args[2]
                  \in readers'[last_call'.args[1]].borrowed_books
           /\ active_loans' = active_loans
      ]_vars

\* C19: borrow_book by a registered reader for a catalogue book with no
\* available copy raises BookNotAvailableError and lends nothing; and in no
\* step does a reader come to hold a book that had no available copy when
\* the step began.
C19_NotAvailable ==
    [][/\ (/\ Calls("borrow_book")
           /\ last_call'.args[1] \in DOMAIN readers
           /\ last_call'.args[2] \in DOMAIN books
           /\ books[last_call'.args[2]].available_copies <= 0) =>
              /\ Raised("BookNotAvailableError")
              /\ LendsNothing
              /\ UNCHANGED libraryState
       /\ \A b \in DOMAIN books :
              books[b].available_copies <= 0 =>
                  \A r \in DOMAIN readers' :
                      b \in readers'[r].borrowed_books => Holds(r, b)
      ]_vars

\* a reader was refused, by the exception, a book whose only copy is lent to
\* the other reader
C19_Witness ==
    /\ last_call.op = "borrow_book"
    /\ last_call.result.outcome = "raise"
    /\ last_call.result.exc = "BookNotAvailableError"
    /\ last_call.args = <<"R2", "B1">>
    /\ books["B1"].total_copies = 1
    /\ books["B1"].available_copies = 0
    /\ Holds("R1", "B1")
    /\ ~Holds("R2", "B1")

\* C20: borrow_book, return_book and get_reader_stats raise
\* ReaderNotFoundError when the reader id is not registered, whatever the
\* ISBN, and leave the library as it was; borrow_book by a registered reader
\* for an ISBN that is not in the catalogue returns (False, a message
\* holding "not found") and raises nothing.
C20_ReaderNotFound ==
    [][/\ (/\ \/ Calls("borrow_book")
              \/ Calls("return_book")
              \/ Calls("get_reader_stats")
           /\ last_call'.args[1] \notin DOMAIN readers) =>
              /\ Raised("ReaderNotFoundError")
              /\ UNCHANGED libraryState
       /\ (/\ Calls("borrow_book")
           /\ last_call'.args[1] \in DOMAIN readers
           /\ last_call'.args[2] \notin DOMAIN books) =>
              /\ Refused("not found")
              /\ UNCHANGED libraryState
      ]_vars

\* an unregistered reader asked for a book whose only copy is lent and got
\* ReaderNotFoundError
C20_Witness ==
    /\ last_call.op = "borrow_book"
    /\ last_call.result.outcome = "raise"
    /\ last_call.result.exc = "ReaderNotFoundError"
    /\ last_call.args = <<"R2", "B1">>
    /\ "R2" \notin DOMAIN readers
    /\ "B1" \in DOMAIN books
    /\ books["B1"].available_copies = 0
    /\ Holds("R1", "B1")

\* the call of the step returned the pair (FALSE, 0) of return_book
ReturnRefused ==
    /\ last_call'.result.outcome = "return"
    /\ last_call'.result.value = <<FALSE, 0>>

\* the call before the step was a successful return_book of the same loan
JustReturned(reader_id, isbn) ==
    /\ last_call.op = "return_book"
    /\ last_call.args = <<reader_id, isbn>>
    /\ last_call.result.outcome = "return"
    /\ last_call.result.value[1] = TRUE

\* C21: return_book by a registered reader returns (False, 0.0) and leaves
\* the books, the readers (borrowed sets and histories), the active loans and
\* the borrow history as they were when the ISBN is not in the catalogue or
\* the reader does not hold the book; a return_book that repeats the
\* successful return just made is refused that way.
C21_ReturnRefused ==
    [][(/\ Calls("return_book")
        /\ last_call'.args[1] \in DOMAIN readers) =>
           /\ (\/ last_call'.args[2] \notin DOMAIN books
               \/ ~Holds(last_call'.args[1], last_call'.args[2])) =>
                  /\ ReturnRefused
                  /\ UNCHANGED libraryState
           /\ JustReturned(last_call'.args[1], last_call'.args[2]) =>
                  /\ ReturnRefused
                  /\ UNCHANGED libraryState
      ]_vars

\* the reader returned a book, a second copy of which the other reader still
\* holds, and the same return made again was refused
C21_Witness ==
    /\ last_call.op = "return_book"
    /\ last_call.args = <<"R1", "B1">>
    /\ last_call.result = Return(<<FALSE, 0>>)
    /\ Len(readers["R1"].history) = 2
    /\ ~Holds("R1", "B1")
    /\ Holds("R2", "B1")
    /\ books["B1"].available_copies < books["B1"].total_copies

\* the call of the step returned a pair whose first component is TRUE
Succeeded ==
    /\ last_call'.result.outcome = "return"
    /\ last_call'.result.value[1] = TRUE

\* the step changes no book but isbn and no reader but reader_id
OthersKept(reader_id, isbn) ==
    /\ DOMAIN books' = DOMAIN books
    /\ DOMAIN readers' = DOMAIN readers
    /\ DOMAIN active_loans' = DOMAIN active_loans
    /\ \A b \in DOMAIN books \ {isbn} : books'[b] = books[b]
    /\ \A r \in DOMAIN readers \ {reader_id} :
           readers'[r] = readers[r] /\ active_loans'[r] = active_loans[r]
    /\ books'[isbn].total_copies = books[isbn].total_copies

\* C22: a successful borrow_book lowers the book's available_copies by
\* exactly 1, adds the ISBN, which was not there, to the reader's borrowed
\* set and records an active loan that was not there.  A return_book by a
\* reader who holds the book, the one that follows the borrow included,
\* returns True and undoes just that: available_copies is one more, the
\* borrowed set and the active loans of the reader are what they are without
\* the ISBN; only the reader's history (by one record each time) and the
\* borrow history (by one record at the borrow) grow.
C22_RoundTrip ==
    [][LET reader_id == last_call'.args[1]
           isbn == last_call'.args[2]
       IN  /\ (Calls("borrow_book") /\ Succeeded) =>
                  /\ books'[isbn].available_copies =
                         books[isbn].available_copies - 1
                  /\ isbn \notin readers[reader_id].borrowed_books
                  /\ readers'[reader_id].borrowed_books =
                         readers[reader_id].borrowed_books \cup {isbn}
                  /\ isbn \notin DOMAIN active_loans[reader_id]
                  /\ isbn \in DOMAIN active_loans'[reader_id]
                  /\ Del(active_loans'[reader_id], isbn) =
                         active_loans[reader_id]
                  /\ Len(readers'[reader_id].history) =
                         Len(readers[reader_id].history) + 1
                  /\ Len(borrow_history') = Len(borrow_history) + 1
                  /\ OthersKept(reader_id, isbn)
           /\ (/\ Calls("return_book")
               /\ Holds(reader_id, isbn)
               /\ isbn \in DOMAIN books) =>
                  /\ Succeeded
                  /\ books'[isbn].available_copies =
                         books[isbn].available_copies + 1
                  /\ readers'[reader_id].borrowed_books =
                         readers[reader_id].borrowed_books \ {isbn}
                  /\ active_loans'[reader_id] =
                         Del(active_loans[reader_id], isbn)
                  /\ Len(readers'[reader_id].history) =
                         Len(readers[reader_id].history) + 1
                  /\ borrow_history' = borrow_history
                  /\ OthersKept(reader_id, isbn)
      ]_vars

\* a reader borrowed the only copy of a title and returned it: the copy is
\* back, the reader holds nothing and has no loan, the histories grew
C22_Witness ==
    /\ last_call.op = "return_book"
    /\ last_call.args = <<"R1", "B1">>
    /\ last_call.result.outcome = "return"
    /\ last_call.result.value[1] = TRUE
    /\ books["B1"].total_copies = 1
    /\ books["B1"].available_copies = 1
    /\ readers["R1"].borrowed_books = {}
    /\ active_loans["R1"] = <<>>
    /\ Len(readers["R1"].history) = 2
    /\ Len(borrow_history) = 1

\* ------------------------------------------------------------------------
\* Claims about the fines (checked under SpecLoans, where time passes; a
\* step that leaves the clock alone is a call)

\* the due date of a loan, counted from the day it was borrowed
DueDate(loan) == loan.borrow_date + LOAN_PERIOD_DAYS * TicksPerDay

\* the whole days between due and a later time t
WholeDaysPast(due, t) ==
    CHOOSE n \in 0..t :
        /\ n * TicksPerDay <= t - due
        /\ t - due < (n + 1) * TicksPerDay

\* the fine the claim gives for the loan of isbn by reader_id, now
FineOwed(reader_id, isbn) ==
    IF reader_id \notin DOMAIN active_loans
           \/ isbn \notin DOMAIN active_loans[reader_id]
    THEN 0
    ELSE LET due == DueDate(active_loans[reader_id][isbn])
         IN  IF now <= due THEN 0
             ELSE WholeDaysPast(due, now) * FINE_PER_DAY

\* C23: a loan is due LOAN_PERIOD_DAYS = 14 days after it was borrowed;
\* calculate_fine gives 0 without an active loan or when the time is not
\* after the due date, and else the whole days past the due date times
\* FINE_PER_DAY = 10 (60 on the 20th day after the borrowing); a successful
\* return_book returns the fine calculate_fine gives just before it, and
\* after it calculate_fine gives 0 for that loan.
C23_Fines ==
    [][now' = now =>
       \A reader_id \in LibraryReaders : \A isbn \in LibraryIsbns :
           last_call'.args = <<reader_id, isbn>> =>
               /\ (Calls("borrow_book") /\ Succeeded) =>
                      /\ active_loans'[reader_id][isbn].borrow_date = now
                      /\ active_loans'[reader_id][isbn].return_date =
                             DueDate(active_loans'[reader_id][isbn])
               /\ Calls("calculate_fine") =>
                      /\ last_call'.result = Return(FineOwed(reader_id, isbn))
                      /\ (/\ reader_id \in DOMAIN active_loans
                          /\ isbn \in DOMAIN active_loans[reader_id]
                          /\ now = active_loans[reader_id][isbn].borrow_date
                                       + 20 * TicksPerDay) =>
                             last_call'.result = Return(60)
               /\ (Calls("return_book") /\ Succeeded) =>
                      /\ last_call'.result.value[2] =
                             calculate_fine(reader_id, isbn, now)
                      /\ last_call'.result.value[2] =
                             FineOwed(reader_id, isbn)
                      /\ calculate_fine(reader_id, isbn, now)' = 0
      ]_vars

\* a book borrowed when the desk opened came back 20 days later and the
\* return cost 60; the other book, borrowed six days after it, is due at
\* this very time and costs nothing
C23_Witness ==
    /\ now = 20 * TicksPerDay
    /\ last_call.op = "return_book"
    /\ last_call.args = <<"R1", "B1">>
    /\ last_call.result = Return(<<TRUE, 60>>)
    /\ borrow_history[1].isbn = "B1"
    /\ borrow_history[1].borrow_date = 0
    /\ calculate_fine("R1", "B1", now) = 0
    /\ "B2" \in DOMAIN active_loans["R1"]
    /\ calculate_fine("R1", "B2", now) = 0
    /\ now = active_loans["R1"]["B2"].return_date

\* ------------------------------------------------------------------------
\* Claims about the catalogue (checked under SpecStock)

\* the data of an add_book call that the claim calls invalid
InvalidData(isbn, copies, title, author, year) ==
    \/ isbn = ""
    \/ title = ""
    \/ author = ""
    \/ year < 1000
    \/ year > CurrentYear
    \/ copies < 0

\* C24: add_book for an ISBN of the catalogue returns True and raises
\* total_copies and available_copies of that book by exactly the copies
\* given, whatever card comes with them: the title, the author and the year
\* stay, and so do the other books, the readers and the loans.  add_book for
\* an ISBN that is not in the catalogue with an empty ISBN, title or author,
\* a year out of range or a negative number of copies returns False and
\* adds no book.
C24_AddBook ==
    [][Calls("add_book") =>
       LET isbn == last_call'.args[1]
           copies == last_call'.args[2]
           title == last_call'.args[3]
           author == last_call'.args[4]
           year == last_call'.args[5]
       IN  /\ isbn \in DOMAIN books =>
                  /\ last_call'.result = Return(TRUE)
                  /\ DOMAIN books' = DOMAIN books
                  /\ books'[isbn].total_copies =
                         books[isbn].total_copies + copies
                  /\ books'[isbn].available_copies =
                         books[isbn].available_copies + copies
                  /\ books'[isbn].isbn = isbn
                  /\ books'[isbn].title = books[isbn].title
                  /\ books'[isbn].author = books[isbn].author
                  /\ books'[isbn].year = books[isbn].year
                  /\ \A b \in DOMAIN books \ {isbn} : books'[b] = books[b]
                  /\ UNCHANGED <<readers, active_loans, borrow_history>>
           /\ (/\ isbn \notin DOMAIN books
               /\ InvalidData(isbn, copies, title, author, year)) =>
                  /\ last_call'.result = Return(FALSE)
                  /\ UNCHANGED libraryState
      ]_vars

\* a second copy of a title came with the card of another book while the
\* reader held the first: the title kept its card, the loan stayed
C24_Witness ==
    /\ last_call.op = "add_book"
    /\ last_call.args = <<"B1", 1, "Refactoring", "Martin Fowler", 2018>>
    /\ last_call.result = Return(TRUE)
    /\ books["B1"].title = "Clean Code"
    /\ books["B1"].total_copies = 2
    /\ books["B1"].available_copies = 1
    /\ Holds("R1", "B1")
    /\ "B1" \in DOMAIN active_loans["R1"]

\* ------------------------------------------------------------------------
\* Claims about the popular books (checked under SpecRoom)

\* the successful borrowings of isbn recorded so far
TimesBorrowed(history, isbn) ==
    Cardinality({k \in 1..Len(history) : history[k].isbn = isbn})

\* the ISBNs borrowed at least once
EverBorrowed(history) == {history[k].isbn : k \in 1..Len(history)}

RECURSIVE SumOfCounts(_)
SumOfCounts(pairs) ==
    IF pairs = <<>> THEN 0 ELSE Head(pairs)[2] + SumOfCounts(Tail(pairs))

\* C25: get_popular_books(limit) with limit >= 0 returns (ISBN, count)
\* pairs of distinct ISBNs, as many as there are borrowed ISBNs and never
\* more than limit, in non-increasing order of count; the count of a pair is
\* the number of records of the ISBN in borrow_history, no ISBN left out was
\* borrowed more often than one included, and when none is left out the
\* counts sum to the length of borrow_history.  borrow_history takes one
\* record at each successful borrow_book and at no other call, so a count is
\* the number of successful borrowings and a return never lowers it.
C25_PopularBooks ==
    [][/\ (Calls("get_popular_books") /\ last_call'.args[1] >= 0) =>
              LET limit == last_call'.args[1]
                  pairs == last_call'.result.value
                  listed == {pairs[k][1] : k \in 1..Len(pairs)}
                  borrowed == EverBorrowed(borrow_history)
              IN  /\ last_call'.result.outcome = "return"
                  /\ Len(pairs) <= limit
                  /\ Len(pairs) = IF limit < Cardinality(borrowed)
                                  THEN limit ELSE Cardinality(borrowed)
                  /\ Cardinality(listed) = Len(pairs)
                  /\ \A k \in 1..Len(pairs) :
                         pairs[k][2] =
                             TimesBorrowed(borrow_history, pairs[k][1])
                  /\ \A j, k \in 1..Len(pairs) :
                         j < k => pairs[j][2] >= pairs[k][2]
                  /\ \A isbn \in borrowed \ listed : \A k \in 1..Len(pairs) :
                         TimesBorrowed(borrow_history, isbn) <= pairs[k][2]
                  /\ listed = borrowed =>
                         SumOfCounts(pairs) = Len(borrow_history)
                  /\ UNCHANGED libraryState
       /\ \A isbn \in RoomIsbns :
              TimesBorrowed(borrow_history', isbn) =
                  TimesBorrowed(borrow_history, isbn)
                      + (IF /\ Calls("borrow_book")
                            /\ last_call' # last_call
                            /\ Succeeded
                            /\ last_call'.args[2] = isbn
                         THEN 1 ELSE 0)
       /\ Calls("return_book") =>
              PopularBooks(borrow_history', 10) = PopularBooks(borrow_history, 10)
      ]_vars

\* B1 was borrowed once, then B2 twice and returned twice: B2 alone is
\* listed when one book is asked for
C25_Witness ==
    /\ last_call.op = "get_popular_books"
    /\ last_call.args = <<1>>
    /\ last_call.result = Return(<<<<"B2", 2>>>>)
    /\ Len(borrow_history) = 3
    /\ borrow_history[1].isbn = "B1"
    /\ ~Holds("R1", "B2")
    /\ PopularBooks(borrow_history, 10) = <<<<"B2", 2>>, <<"B1", 1>>>>

\* ------------------------------------------------------------------------
\* Claims about the temperature analysis (checked under SpecWeather)

AtLeast25(temp) == temp >= 25

Below10(temp) == temp < 10

\* C26: analyze_temperature raises ValueError for a list whose length is not
\* 7; for a list of 7 readings hot_days is the number of readings >= 25 and
\* cold_days the number of readings < 10 (25 is hot, 10 is not cold), and
\* the recommendation is the hot-week text when hot_days >= 3, else the
\* cold-week text when cold_days >= 3, else the moderate-week text: a week
\* of 3 hot and 3 cold days is a hot week.
C26_Temperature ==
    analysis # NotCalled =>
        IF Len(temperatures) # 7
        THEN analysis.outcome = "raise" /\ analysis.exc = "ValueError"
        ELSE LET hot == Len(SelectSeq(temperatures, AtLeast25))
                 cold == Len(SelectSeq(temperatures, Below10))
             IN  /\ analysis.outcome = "return"
                 /\ analysis.value.hot_days = hot
                 /\ analysis.value.cold_days = cold
                 /\ hot >= 3 => analysis.value.recommendation = HotWeekText
                 /\ (hot < 3 /\ cold >= 3) =>
                        analysis.value.recommendation = ColdWeekText
                 /\ (hot < 3 /\ cold < 3) =>
                        analysis.value.recommendation = ModerateWeekText

\* a week of three days at 25, three days at 9 and one at 10 was analysed:
\* three hot days, three cold days, a hot week
C26_Witness ==
    /\ temperatures = <<25, 9, 25, 9, 25, 9, 10>>
    /\ analysis.outcome = "return"
    /\ analysis.value.hot_days = 3
    /\ analysis.value.cold_days = 3
    /\ analysis.value.recommendation = HotWeekText

\* ------------------------------------------------------------------------
\* Claims about the counts and the books kept by the library (checked under
\* SpecLibrary)

\* C27: every book of the catalogue has 0 <= available_copies <=
\* total_copies, after any sequence of add_book (with any integer number of
\* copies), register_reader, borrow_book and return_book.
C27_CopyCount ==
    \A isbn \in DOMAIN books :
        /\ 0 <= books[isbn].available_copies
        /\ books[isbn].available_copies <= books[isbn].total_copies

\* the readers who hold isbn, by their borrowed sets and by the active loans
Holders(isbn) == {r \in DOMAIN readers : isbn \in readers[r].borrowed_books}

Borrowers(isbn) ==
    {r \in DOMAIN active_loans : isbn \in DOMAIN active_loans[r]}

\* C28: for every book of the catalogue total_copies - available_copies is
\* the number of readers whose borrowed set holds the ISBN, and the number
\* of readers with an active loan of it.
C28_CopyConservation ==
    \A isbn \in DOMAIN books :
        /\ books[isbn].total_copies - books[isbn].available_copies =
               Cardinality(Holders(isbn))
        /\ books[isbn].total_copies - books[isbn].available_copies =
               Cardinality(Borrowers(isbn))

\* both copies of a title are lent, one to each reader
C28_Witness ==
    /\ "B1" \in DOMAIN books
    /\ books["B1"].total_copies = 2
    /\ books["B1"].available_copies = 0
    /\ Holders("B1") = {"R1", "R2"}
    /\ Len(borrow_history) = 2

\* C29: the keys of active_loans are exactly the registered reader ids; for
\* every registered reader the ISBNs of active_loans[reader] are exactly the
\* reader's borrowed_books, and each of them is in the catalogue.
C29_LoanBookkeeping ==
    /\ DOMAIN active_loans = DOMAIN readers
    /\ \A r \in DOMAIN readers :
           /\ DOMAIN active_loans[r] = readers[r].borrowed_books
           /\ readers[r].borrowed_books \subseteq DOMAIN books
           /\ readers[r].reader_id = r

\* one reader holds a book again after returning it, the other is
\* registered and holds nothing
C29_Witness ==
    /\ DOMAIN readers = {"R1", "R2"}
    /\ readers["R1"].borrowed_books = {"B1"}
    /\ DOMAIN active_loans["R1"] = {"B1"}
    /\ Len(readers["R1"].history) = 3
    /\ readers["R2"].borrowed_books = {}
    /\ active_loans["R2"] = <<>>
    /\ DOMAIN books = {"B1"}

\* C30: a borrow_book call that does not return True - it raises
\* ReaderNotFoundError or BookNotAvailableError or returns (False, message) -
\* leaves the books, the readers, active_loans and borrow_history as they
\* were; and no borrow_book call lowers the available copies of a book
\* without its reader coming to hold that book with a loan recorded.
C30_FailedBorrowFrame ==
    [][/\ (/\ Calls("borrow_book")
           /\ \/ last_call'.result.outcome = "raise"
              \/ last_call'.result.value[1] = FALSE) =>
              /\ UNCHANGED libraryState
              /\ last_call'.result.outcome = "raise" =>
                     last_call'.result.exc \in
                         {"ReaderNotFoundError", "BookNotAvailableError"}
       /\ \A isbn \in DOMAIN books :
              (/\ Calls("borrow_book")
               /\ books'[isbn].available_copies
                      < books[isbn].available_copies) =>
                  /\ Succeeded
                  /\ last_call'.args[2] = isbn
                  /\ ~Holds(last_call'.args[1], isbn)
                  /\ isbn \in readers'[last_call'.args[1]].borrowed_books
                  /\ isbn \in DOMAIN active_loans'[last_call'.args[1]]
                  /\ Len(borrow_history') = Len(borrow_history) + 1
      ]_vars

\* a reader who holds the only copy of a title asked for it again and got
\* BookNotAvailableError; the copy, the loan and the histories are as before
C30_Witness ==
    /\ last_call.op = "borrow_book"
    /\ last_call.args = <<"R1", "B1">>
    /\ last_call.result.outcome = "raise"
    /\ last_call.result.exc = "BookNotAvailableError"
    /\ Holds("R1", "B1")
    /\ books["B1"].total_copies = 1
    /\ books["B1"].available_copies = 0
    /\ Len(borrow_history) = 1
    /\ Len(readers["R1"].history) = 1

====
